---- MODULE Spec2Model ----
(***************************************************************************)
(* The durable approval workflows of AgenticHR: LeaveApprovalWorkflow      *)
(* (workflows/leave_approval/workflow.py) and OnboardingWorkflow           *)
(* (workflows/onboarding/workflow.py), run by a workflow engine that       *)
(* records every activity, timer and signal in an append-only history.     *)
(*                                                                         *)
(* The workflow coroutine is modelled by its position pc (the await it is  *)
(* suspended at) and its instance fields; the engine's API is modelled the *)
(* way the code uses it: execute_activity schedules an activity, retries   *)
(* it per retry_policy and returns its result or raises; wait_condition    *)
(* returns once the condition is truthy or raises TimeoutError when its    *)
(* timer fires; workflow.info().set_signal/get_signal is a per-name signal *)
(* buffer. Between two suspension points the coroutine runs without        *)
(* interruption (one workflow task).                                       *)
(*                                                                         *)
(* StartSpec is the leave service's workflow client                        *)
(* (services/leave-svc/app/temporal_client.py), which starts runs under    *)
(* the workflow id leave-<request_id>.                                     *)
(*                                                                         *)
(* StoreSpec is the History Store of the design document: concurrent       *)
(* writers append to per-instance histories under the optimistic check of  *)
(* Append. The repository holds no code for it (the histories are kept by  *)
(* the workflow server), so this part follows the document's contract.     *)
(***************************************************************************)
EXTENDS Integers, Sequences, FiniteSets, TLC

VARIABLES
    input,      \* the immutable workflow input (LeaveApprovalInput / OnboardingInput)
    wf,         \* the workflow object: coroutine position and instance fields
    history,    \* the instance's durable event history
    attempt,    \* failed attempts of the activity in flight (executor state, not persisted)
    nSignals,   \* signals delivered so far
    lastQuery,  \* the response of the status query being answered, if any
    runs,       \* per workflow id: the runs started under it, and whether one is open
    returned,   \* what the last call of start_leave_workflow came back with
    store,      \* History Store: per instance id, the events appended so far
    pending,    \* History Store: per writer, the instance it has read and the head it saw
    lastAppend, \* History Store: the writer and the error of the last Append call
    queue,      \* Worker Pool: the dispatch queue of instance ids
    lockedBy,   \* Worker Pool: per instance id, the worker holding its lock
    working,    \* Worker Pool: per worker, what it is doing and for which instance
    clock,      \* Timer Service: the current time
    waitRows,   \* Timer Service: the PendingWait rows of kind Timer, per wait id
    armed,      \* Timer Service: the wait ids with a timer armed in memory
    firings,    \* Timer Service: per wait id, the TimerFired notifications delivered
    serviceUp,  \* Timer Service: whether the service is running
    MOCK_EMPLOYEES, \* employee-svc: the employee store, per employee_id
    empCall,    \* employee-svc: the last call handled and its response status
    leave_request, \* leave-svc: the row of the leave request in the database
    handlers,   \* leave-svc: per concurrent call, the handler's position and session
    delayed,    \* leave-svc: the Celery tasks dispatched, in order
    clients,    \* RateLimitMiddleware: per client key, the counter and the window start
    wallTime,   \* RateLimitMiddleware: time.time(), in seconds
    answered,   \* RateLimitMiddleware: the client key, status and time of the last dispatch
    passed,     \* per client key, the times of the requests let through, in order
    shifts,     \* attendance-svc: the rows of the shifts table, in order of insertion
    checkCalls, \* attendance-svc: per concurrent call, the handler's position and session
    processing, \* attendance-svc: the process_daily_attendance tasks dispatched so far
    retryPolicy, \* Activity Executor: the RetryPolicy of the activity call in progress
    retryNo,    \* Activity Executor: the attempt count of the retry loop
    slept       \* Activity Executor: the delay slept before the latest retry, in seconds

vars == <<input, wf, history, attempt, nSignals, lastQuery, runs, returned,
          store, pending, lastAppend, queue, lockedBy, working,
          clock, waitRows, armed, firings, serviceUp,
          MOCK_EMPLOYEES, empCall, leave_request, handlers, delayed,
          clients, wallTime, answered, passed, shifts, checkCalls, processing,
          retryPolicy, retryNo, slept>>

\* the state of the attendance service
attendanceVars == <<shifts, checkCalls, processing>>

\* the state of the rate limiter
rateVars == <<clients, wallTime, answered, passed>>

\* the state of the leave service
leaveVars == <<leave_request, handlers, delayed>>

\* the state of the Activity Executor's retry loop
executorVars == <<retryPolicy, retryNo, slept>>

\* the state of the employee service
employeeVars == <<MOCK_EMPLOYEES, empCall>>

\* the state of the HTTP services
httpVars == <<employeeVars, leaveVars, rateVars, attendanceVars>>

\* the state of the Timer Service
timerVars == <<clock, waitRows, armed, firings, serviceUp>>

\* the state of the Worker Pool
poolVars == <<queue, lockedBy, working>>

\* the state of the parts around the workflow instance and its History Store
serviceVars == <<poolVars, timerVars, httpVars, executorVars>>

\* the state of the History Store and of its writers
storeVars == <<store, pending, lastAppend>>

\* the state of the leave service's workflow client
clientVars == <<runs, returned>>

\* the state of one workflow instance
instanceVars == <<input, wf, history, attempt, nSignals, lastQuery>>

\* ---------------------------------------------------------------- bounds
MaxSignals == 2
MaxTaskSignals == 1
MaxRuns == 2
MaxStored == 3
MaxQueued == 3
MaxClock == 3
MaxTime == 4
MaxShifts == 2
calls == 2
period == 2

\* ------------------------------------------------------ program constants
maximum_attempts == 3
activity_maximum_attempts == 6
ManagerTimeoutDays == 7
HrTimeoutDays == 3
ItTaskTimeoutDays == 3
HrTaskTimeoutDays == 5
ManagerIntroTimeoutDays == 2
initial_interval == 1
backoff_coefficient == 2
maximum_interval_leave == 10
maximum_interval_onboarding == 30

\* ------------------------------------------------------------ data shapes
Ev(kind, site, ok, who, note) ==
    [kind |-> kind, site |-> site, ok |-> ok, who |-> who, note |-> note]

\* ApprovalDecision; NoDecision stands for "no decision yet" (None)
Decision(approved, approver_id, comments) ==
    [approved |-> approved, approver_id |-> approver_id, comments |-> comments]

NoDecision == Decision(FALSE, 0, "none")

\* the dict returned by run
Result(status, by, reason, final_approver, employee_id, completed_tasks) ==
    [status |-> status, by |-> by, reason |-> reason, final_approver |-> final_approver,
     employee_id |-> employee_id, completed_tasks |-> completed_tasks]

NoResult == Result("none", "none", "none", 0, 0, 0)

\* TaskCompletion; NoCompletion stands for a task id absent from completed_tasks
Completion(completed, completed_by) ==
    [completed |-> completed, completed_by |-> completed_by]

NoCompletion == Completion(FALSE, -1)

\* the tasks the workflow marks itself, and those confirmed by a complete_task signal
SystemTasks ==
    {"create_employee_record", "create_user_account", "assign_equipment",
     "setup_workspace", "schedule_orientation", "generate_id_card"}

ManualTasks ==
    {"system_access_setup", "email_account_setup", "documentation_complete",
     "benefits_enrollment", "manager_introduction"}

TaskIds == SystemTasks \cup ManualTasks

\* the task ids a caller sends with complete_task
SignalTasks == {"system_access_setup", "manager_introduction"}

ApproverIds == {99}

SignalNames == {"manager_approval", "hr_approval"}

\* the bodies a caller can send with a decision signal
SignalBodies == {Decision(a, id, "manual") : a \in BOOLEAN, id \in ApproverIds}

\* the leave inputs: hr_required, and whether hr_id and hr_email are both given (the
\* code reads them only when hr_required is set)
LeaveInputs ==
    {[type |-> "LeaveApproval", hr_required |-> r, hr_contact |-> c,
      manager_id |-> 7, hr_id |-> IF c THEN 8 ELSE 0, equipment_needed |-> FALSE] :
        r \in BOOLEAN, c \in BOOLEAN} \
    {[type |-> "LeaveApproval", hr_required |-> FALSE, hr_contact |-> TRUE,
      manager_id |-> 7, hr_id |-> 8, equipment_needed |-> FALSE]}

OnboardingInputs ==
    {[type |-> "Onboarding", hr_required |-> FALSE, hr_contact |-> TRUE,
      manager_id |-> 7, hr_id |-> 8, equipment_needed |-> q] : q \in BOOLEAN}

\* LeaveRequest, the input of the LeaveApprovalWorkflow of workflows/leave_approval.py
\* (the workflow the leave service starts)
LeaveRequestInputs ==
    {[type |-> "LeaveRequest", hr_required |-> FALSE, hr_contact |-> FALSE,
      manager_id |-> 0, hr_id |-> 0, equipment_needed |-> FALSE]}

Inputs == LeaveInputs \cup OnboardingInputs \cup LeaveRequestInputs

\* ------------------------------------------------------------ call sites
LeaveActivitySites ==
    {"notify_manager_pending", "notify_timeout_manager", "notify_manager_approved",
     "notify_hr_pending", "notify_timeout_hr", "reject_update", "reject_notify",
     "approve_update", "approve_notify", "handle_workflow_error"}

LeaveWaitSites == {"wait_manager", "wait_hr"}

OnboardingEscalationSites ==
    {"escalate_system_access_setup", "escalate_email_account_setup",
     "escalate_documentation_complete", "escalate_benefits_enrollment",
     "escalate_manager_introduction"}

OnboardingActivitySites ==
    {"create_employee_record", "create_user_account", "notify_hr_core_setup",
     "assign_equipment", "setup_workspace", "schedule_orientation", "generate_id_card",
     "notify_manager_intro", "welcome", "notify_onboarding_complete",
     "onboarding_error"} \cup OnboardingEscalationSites

OnboardingWaitSites ==
    {"wait_system_access_setup", "wait_email_account_setup",
     "wait_documentation_complete", "wait_benefits_enrollment",
     "wait_manager_introduction"}

\* the execute_activity calls of workflows/leave_approval.py
LeaveRequestSites ==
    {"verify_balance", "record_insufficient_balance", "request_manager_approval",
     "record_decision", "notify_employee"}

ActivitySites == LeaveActivitySites \cup OnboardingActivitySites \cup LeaveRequestSites

\* a faulty variant: every call site is given the policy of the activity definitions
MaxAttemptsOfDefinitions(site) == activity_maximum_attempts

\* the attempts the retry policy in force at a call site allows
MaxAttempts(site) ==
    IF site \in LeaveRequestSites THEN activity_maximum_attempts ELSE maximum_attempts

WaitSites == LeaveWaitSites \cup OnboardingWaitSites

\* the task a wait of the onboarding workflow waits for
WaitTask(site) ==
    CASE site = "wait_system_access_setup" -> "system_access_setup"
      [] site = "wait_email_account_setup" -> "email_account_setup"
      [] site = "wait_documentation_complete" -> "documentation_complete"
      [] site = "wait_benefits_enrollment" -> "benefits_enrollment"
      [] site = "wait_manager_introduction" -> "manager_introduction"
      [] OTHER -> "none"

\* _send_task_escalation as called from the except clause of each wait
EscalationSite(site) ==
    CASE site = "wait_system_access_setup" -> "escalate_system_access_setup"
      [] site = "wait_email_account_setup" -> "escalate_email_account_setup"
      [] site = "wait_documentation_complete" -> "escalate_documentation_complete"
      [] site = "wait_benefits_enrollment" -> "escalate_benefits_enrollment"
      [] site = "wait_manager_introduction" -> "escalate_manager_introduction"
      [] OTHER -> "none"

\* the wait an escalation belongs to
EscalatedWait(site) == CHOOSE ws \in OnboardingWaitSites : EscalationSite(ws) = site

\* a faulty variant: once the IT tasks are over the coroutine goes on with the manager
\* introduction, leaving _phase_3_hr_setup out
AfterWaitSiteSkipsHr(site) ==
    CASE site = "wait_system_access_setup" -> "wait_email_account_setup"
      [] site = "wait_email_account_setup" -> "notify_manager_intro"
      [] site = "wait_documentation_complete" -> "wait_benefits_enrollment"
      [] site = "wait_benefits_enrollment" -> "notify_manager_intro"
      [] site = "wait_manager_introduction" -> "welcome"
      [] OTHER -> "none"

\* where the coroutine goes once a wait is over (by signal, or after its escalation)
AfterWaitSite(site) ==
    CASE site = "wait_system_access_setup" -> "wait_email_account_setup"
      [] site = "wait_email_account_setup" -> "schedule_orientation"
      [] site = "wait_documentation_complete" -> "wait_benefits_enrollment"
      [] site = "wait_benefits_enrollment" -> "notify_manager_intro"
      [] site = "wait_manager_introduction" -> "welcome"
      [] OTHER -> "none"

\* the phase of run an activity or a wait of the onboarding workflow belongs to:
\* 1 core setup, 2 IT setup, 3 HR setup, 4 manager introduction, 5 completion
\* (0: not part of a phase)
Phase(site) ==
    CASE site \in {"create_employee_record", "create_user_account",
                   "notify_hr_core_setup"} -> 1
      [] site \in {"assign_equipment", "setup_workspace", "wait_system_access_setup",
                   "wait_email_account_setup", "escalate_system_access_setup",
                   "escalate_email_account_setup"} -> 2
      [] site \in {"schedule_orientation", "generate_id_card",
                   "wait_documentation_complete", "wait_benefits_enrollment",
                   "escalate_documentation_complete",
                   "escalate_benefits_enrollment"} -> 3
      [] site \in {"notify_manager_intro", "wait_manager_introduction",
                   "escalate_manager_introduction"} -> 4
      [] site \in {"welcome", "notify_onboarding_complete"} -> 5
      [] OTHER -> 0

\* activities whose result comes from call_service_api and so may carry success=False
ApiSites == {"reject_update", "approve_update", "create_employee_record",
             "create_user_account"}

\* what an activity that ran to completion can return: success, and the id of the
\* record created by create_employee_record
ActivityResults(site) ==
    IF site = "create_employee_record"
    THEN {[ok |-> TRUE, who |-> 501], [ok |-> FALSE, who |-> 0]}
    ELSE IF site \in ApiSites THEN {[ok |-> TRUE, who |-> 0], [ok |-> FALSE, who |-> 0]}
    ELSE {[ok |-> TRUE, who |-> 0]}

\* timeout of each wait_condition, in days
WaitTimeout(site) ==
    CASE site = "wait_manager" -> ManagerTimeoutDays
      [] site = "wait_hr" -> HrTimeoutDays
      [] site \in {"wait_system_access_setup", "wait_email_account_setup"} ->
            ItTaskTimeoutDays
      [] site \in {"wait_documentation_complete", "wait_benefits_enrollment"} ->
            HrTaskTimeoutDays
      [] site = "wait_manager_introduction" -> ManagerIntroTimeoutDays
      [] OTHER -> 0

\* ---------------------------------------------------- the workflow object
InitWf(inp) ==
    [pc |-> IF inp.type = "LeaveApproval" THEN "notify_manager_pending"
            ELSE IF inp.type = "Onboarding" THEN "create_employee_record"
            ELSE "verify_balance",
     awaiting |-> "none",
     signals |-> [n \in SignalNames |-> NoDecision],
     manager_decision |-> NoDecision,
     hr_decision |-> NoDecision,
     rejected_by |-> "none",
     completed_tasks |-> [t \in TaskIds |-> NoCompletion],
     employee_id |-> 0,
     result |-> NoResult,
     error |-> FALSE]

Goto(w, site) == [w EXCEPT !.pc = site, !.awaiting = "none"]

Return(w, res) == [w EXCEPT !.pc = "return", !.awaiting = "none", !.result = res]

\* the except clause of run: _handle_workflow_error
ErrorSite(w) ==
    IF w.pc \in LeaveActivitySites \cup LeaveWaitSites THEN "handle_workflow_error"
    ELSE "onboarding_error"

\* execute_activity or the code after it raised: run's except clause, or out of run
\* (workflows/leave_approval.py has no except clause)
Raise(w) ==
    IF w.pc = ErrorSite(w) \/ w.pc \in LeaveRequestSites
    THEN [w EXCEPT !.pc = "raise", !.awaiting = "none"]
    ELSE [w EXCEPT !.pc = ErrorSite(w), !.awaiting = "none", !.error = TRUE]

\* ------------------------------------------------- LeaveApprovalWorkflow
\* run, line 80: HR approval is awaited only with the flag and both HR contact fields set
HrNeeded(inp) == inp.hr_required /\ inp.hr_contact

\* _handle_rejection is entered (run lines 67-69 and 83-85)
EnterRejection(w, by) == [Goto(w, "reject_update") EXCEPT !.rejected_by = by]

\* run lines 65-77: the branch on the manager's decision
AfterManagerDecision(w, d) ==
    IF ~d.approved
    THEN EnterRejection([w EXCEPT !.manager_decision = d], "manager")
    ELSE Goto([w EXCEPT !.manager_decision = d], "notify_manager_approved")

\* a faulty variant of the branch on HR's decision that approves whatever HR said
AfterHrDecisionApproves(w, d) == Goto([w EXCEPT !.hr_decision = d], "approve_update")

\* run lines 81-93: the branch on HR's decision
AfterHrDecision(w, d) ==
    IF ~d.approved
    THEN EnterRejection([w EXCEPT !.hr_decision = d], "hr")
    ELSE Goto([w EXCEPT !.hr_decision = d], "approve_update")

\* run lines 79-101: after the employee was told of the manager's approval
AfterManagerApprovedNotice(w, inp) ==
    IF HrNeeded(inp) THEN Goto(w, "notify_hr_pending") ELSE Goto(w, "approve_update")

\* a faulty variant of the timeout decision that approves the request
ManagerTimeoutApproves(inp) == Decision(TRUE, inp.manager_id, "manager_timeout")

\* the decisions the two waits return on TimeoutError (lines 161-165, 211-215)
ManagerTimeoutDecision(inp) == Decision(FALSE, inp.manager_id, "manager_timeout")

HrTimeoutDecision(inp) == Decision(FALSE, inp.hr_id, "hr_timeout")

\* a faulty variant in which the HR wait is entered again after its timeout notice
AfterHrTimeoutNoticeWaitsAgain(w, inp) == Goto(w, "wait_hr")

\* after _notify_approval_timeout returned (lines 159-165, 209-215)
AfterManagerTimeoutNotice(w, inp) == AfterManagerDecision(w, ManagerTimeoutDecision(inp))

AfterHrTimeoutNotice(w, inp) == AfterHrDecision(w, HrTimeoutDecision(inp))

\* the dicts run returns (lines 70-74, 86-90, 94-98, 102-106, 111-114)
RejectedResult(w) ==
    Result("rejected", w.rejected_by,
           IF w.rejected_by = "manager" THEN w.manager_decision.comments
           ELSE w.hr_decision.comments, 0, 0, 0)

ApprovedResult(w) ==
    IF w.hr_decision # NoDecision
    THEN Result("approved", "hr", "none", w.hr_decision.approver_id, 0, 0)
    ELSE Result("approved", "manager", "none", w.manager_decision.approver_id, 0, 0)

LeaveErrorResult(w) == Result("error", "none", "error", 0, 0, 0)

\* the coroutine resumes after the activity at w.pc returned
ContinueLeave(w, inp, ok, who) ==
    CASE w.pc = "notify_manager_pending" -> Goto(w, "wait_manager")
      [] w.pc = "notify_timeout_manager" -> AfterManagerTimeoutNotice(w, inp)
      [] w.pc = "notify_manager_approved" -> AfterManagerApprovedNotice(w, inp)
      [] w.pc = "notify_hr_pending" -> Goto(w, "wait_hr")
      [] w.pc = "notify_timeout_hr" -> AfterHrTimeoutNotice(w, inp)
      [] w.pc = "reject_update" -> Goto(w, "reject_notify")
      [] w.pc = "reject_notify" -> Return(w, RejectedResult(w))
      [] w.pc = "approve_update" -> Goto(w, "approve_notify")
      [] w.pc = "approve_notify" -> Return(w, ApprovedResult(w))
      [] w.pc = "handle_workflow_error" -> Return(w, LeaveErrorResult(w))
      [] OTHER -> w

\* ---------------------------------------------------- OnboardingWorkflow
\* _mark_task_completed
MarkTaskCompleted(w, task_id, completed_by) ==
    [w EXCEPT !.completed_tasks[task_id] = Completion(TRUE, completed_by)]

\* list(self.completed_tasks.keys()) and len(self.completed_tasks)
CompletedKeys(w) == {t \in TaskIds : w.completed_tasks[t] # NoCompletion}

NumCompleted(w) == Cardinality(CompletedKeys(w))

\* the dicts run returns (lines 94-99, 104-108)
CompletedResult(w) == Result("completed", "none", "none", 0, w.employee_id, NumCompleted(w))

OnboardingErrorResult(w) == Result("error", "none", "error", 0, 0, NumCompleted(w))

\* _phase_1_core_setup, lines 130-134 and 152-155
AfterCreateEmployee(w, ok, id) ==
    IF ok
    THEN Goto(MarkTaskCompleted([w EXCEPT !.employee_id = id],
                                "create_employee_record", 0), "create_user_account")
    ELSE Raise(w)

AfterCreateUser(w, ok) ==
    IF ok THEN Goto(MarkTaskCompleted(w, "create_user_account", 0), "notify_hr_core_setup")
    ELSE Raise(w)

\* a faulty variant that marks the task only when the executor needed no retry, i.e.
\* that reads state which is not in the history
MarkIfFirstAttempt(w, ok, task_id, completed_by) ==
    IF ok /\ attempt = 0 THEN MarkTaskCompleted(w, task_id, completed_by) ELSE w

\* lines 174-175, 186-187, 205-206, 216-217: the task is marked only on success
MarkIfSuccess(w, ok, task_id, completed_by) ==
    IF ok THEN MarkTaskCompleted(w, task_id, completed_by) ELSE w

\* the coroutine resumes after the activity at w.pc returned
ContinueOnboarding(w, inp, ok, who) ==
    CASE w.pc = "create_employee_record" -> AfterCreateEmployee(w, ok, who)
      [] w.pc = "create_user_account" -> AfterCreateUser(w, ok)
      [] w.pc = "notify_hr_core_setup" ->
            Goto(w, IF inp.equipment_needed THEN "assign_equipment" ELSE "setup_workspace")
      [] w.pc = "assign_equipment" ->
            Goto(MarkIfSuccess(w, ok, "assign_equipment", 0), "setup_workspace")
      [] w.pc = "setup_workspace" ->
            Goto(MarkIfSuccess(w, ok, "setup_workspace", 0), "wait_system_access_setup")
      [] w.pc = "schedule_orientation" ->
            Goto(MarkIfSuccess(w, ok, "schedule_orientation", inp.hr_id), "generate_id_card")
      [] w.pc = "generate_id_card" ->
            Goto(MarkIfSuccess(w, ok, "generate_id_card", 0), "wait_documentation_complete")
      [] w.pc = "notify_manager_intro" -> Goto(w, "wait_manager_introduction")
      [] w.pc = "welcome" -> Goto(w, "notify_onboarding_complete")
      [] w.pc = "notify_onboarding_complete" -> Return(w, CompletedResult(w))
      [] w.pc = "onboarding_error" -> Return(w, OnboardingErrorResult(w))
      [] w.pc \in OnboardingEscalationSites -> Goto(w, AfterWaitSite(EscalatedWait(w.pc)))
      [] OTHER -> w

\* ------------------------- LeaveApprovalWorkflow of workflows/leave_approval.py
\* the strings run returns
LeaveRequestResult(status) == Result(status, "none", "none", 0, 0, 0)

\* the coroutine resumes after the activity at w.pc returned; ok is the bool returned
\* by verify_balance and request_manager_approval
ContinueLeaveRequest(w, inp, ok, who) ==
    CASE w.pc = "verify_balance" ->
            Goto(w, IF ok THEN "request_manager_approval" ELSE "record_insufficient_balance")
      [] w.pc = "record_insufficient_balance" ->
            Return(w, LeaveRequestResult("rejected:insufficient_balance"))
      [] w.pc = "request_manager_approval" ->
            Goto([w EXCEPT !.manager_decision = Decision(ok, 0, "activity")], "record_decision")
      [] w.pc = "record_decision" -> Goto(w, "notify_employee")
      [] w.pc = "notify_employee" ->
            Return(w, LeaveRequestResult(IF w.manager_decision.approved THEN "approved"
                                         ELSE "rejected"))
      [] OTHER -> w

\* ---------------------------------------------------------- the coroutines
Continue(w, inp, ok, who) ==
    IF inp.type = "LeaveApproval" THEN ContinueLeave(w, inp, ok, who)
    ELSE IF inp.type = "Onboarding" THEN ContinueOnboarding(w, inp, ok, who)
    ELSE ContinueLeaveRequest(w, inp, ok, who)

\* the condition of the wait_condition at w.pc
WaitCondition(w) ==
    CASE w.pc = "wait_manager" -> w.signals["manager_approval"] # NoDecision
      [] w.pc = "wait_hr" -> w.signals["hr_approval"] # NoDecision
      [] w.pc \in OnboardingWaitSites -> w.completed_tasks[WaitTask(w.pc)] # NoCompletion
      [] OTHER -> FALSE

\* wait_condition returned: the code after it
PassWait(w) ==
    CASE w.pc = "wait_manager" -> AfterManagerDecision(w, w.signals["manager_approval"])
      [] w.pc = "wait_hr" -> AfterHrDecision(w, w.signals["hr_approval"])
      [] w.pc \in OnboardingWaitSites -> Goto(w, AfterWaitSite(w.pc))
      [] OTHER -> w

\* a faulty variant: a timeout of an onboarding wait ends the run
OnTimeoutEndsRun(w) ==
    CASE w.pc = "wait_manager" -> Goto(w, "notify_timeout_manager")
      [] w.pc = "wait_hr" -> Goto(w, "notify_timeout_hr")
      [] w.pc \in OnboardingWaitSites -> Return(w, OnboardingErrorResult(w))
      [] OTHER -> w

\* wait_condition raised TimeoutError: the except clauses
OnTimeout(w) ==
    CASE w.pc = "wait_manager" -> Goto(w, "notify_timeout_manager")
      [] w.pc = "wait_hr" -> Goto(w, "notify_timeout_hr")
      [] w.pc \in OnboardingWaitSites -> Goto(w, EscalationSite(w.pc))
      [] OTHER -> w

\* the wait a signal name is read by
SignalWait(name) == IF name = "manager_approval" THEN "wait_manager" ELSE "wait_hr"

\* a faulty variant of the signal handlers that keeps a signal only while its wait
\* is pending
OnSignalWhileWaiting(w, name, body) ==
    IF w.pc = SignalWait(name) THEN [w EXCEPT !.signals[name] = body] ELSE w

\* the signal handlers manager_approval / hr_approval
OnSignal(w, name, body) == [w EXCEPT !.signals[name] = body]

\* the signal handler complete_task
OnCompleteTask(w, task_id, completion) ==
    [w EXCEPT !.completed_tasks[task_id] = completion]

\* the coroutine runs on through every wait whose condition already holds
RECURSIVE RunToBlock(_)
RunToBlock(w) ==
    IF w.pc \in WaitSites /\ WaitCondition(w) THEN RunToBlock(PassWait(w)) ELSE w

\* the effect of one history event on the workflow object
Apply(w, inp, e) ==
    RunToBlock(
      CASE e.kind = "ActivityScheduled" -> [w EXCEPT !.awaiting = "activity"]
        [] e.kind = "ActivityCompleted" -> Continue(w, inp, e.ok, e.who)
        [] e.kind = "ActivityFailed" -> Raise(w)
        [] e.kind = "TimerStarted" -> [w EXCEPT !.awaiting = "timer"]
        [] e.kind = "TimerFired" -> OnTimeout(w)
        [] e.kind = "SignalReceived" /\ e.site \in SignalNames ->
              OnSignal(w, e.site, Decision(e.ok, e.who, e.note))
        [] e.kind = "SignalReceived" /\ e.site = "complete_task" ->
              OnCompleteTask(w, e.note, Completion(e.ok, e.who))
        [] e.kind = "WorkflowCompleted" -> [w EXCEPT !.pc = "done"]
        [] e.kind = "WorkflowFailed" -> [w EXCEPT !.pc = "done"]
        [] OTHER -> w)

\* replay: the workflow object rebuilt from the input and the events h[i..] alone
RECURSIVE Fold(_, _, _, _)
Fold(w, inp, h, i) ==
    IF i > Len(h) THEN w
    ELSE LET w1 == Apply(w, inp, h[i])
         IN  \* (the test has each event applied before the next one is looked at)
             IF w1 = w THEN Fold(w, inp, h, i + 1) ELSE Fold(w1, inp, h, i + 1)

Replay(inp, h) == Fold(InitWf(inp), inp, h, 1)

\* a faulty variant of the pending call in which wait_condition starts no timer
CommandWithoutTimer(w) ==
    CASE w.awaiting = "none" /\ w.pc \in ActivitySites ->
            <<Ev("ActivityScheduled", w.pc, TRUE, 0, "none")>>
      [] w.pc = "return" ->
            <<Ev("WorkflowCompleted", "run", w.result.status # "error",
                 w.result.final_approver, w.result.status)>>
      [] w.pc = "raise" -> <<Ev("WorkflowFailed", "run", FALSE, 0, "error")>>
      [] OTHER -> <<>>

\* the event the coroutine's pending call appends when it blocks or ends
Command(w) ==
    CASE w.awaiting = "none" /\ w.pc \in ActivitySites ->
            <<Ev("ActivityScheduled", w.pc, TRUE, 0, "none")>>
      [] w.awaiting = "none" /\ w.pc \in WaitSites ->
            <<Ev("TimerStarted", w.pc, TRUE, WaitTimeout(w.pc), "none")>>
      [] w.pc = "return" ->
            <<Ev("WorkflowCompleted", "run", w.result.status # "error",
                 w.result.final_approver, w.result.status)>>
      [] w.pc = "raise" -> <<Ev("WorkflowFailed", "run", FALSE, 0, "error")>>
      [] OTHER -> <<>>

\* one workflow task on the workflow object w: the coroutine reacts to the events es
\* and runs on to its next suspension point; TaskCommand is the call it makes there
TaskCommand(w, inp, es) == Command(Fold(w, inp, es, 1))

TaskState(w, inp, es) ==
    LET w1 == Fold(w, inp, es, 1) IN Fold(w1, inp, Command(w1), 1)

\* the signals a client can send to an instance
SignalEvents(inp) ==
    IF inp.type = "LeaveApproval"
    THEN {Ev("SignalReceived", n, b.approved, b.approver_id, b.comments) :
            n \in SignalNames, b \in SignalBodies}
    ELSE IF inp.type = "Onboarding"
    THEN {Ev("SignalReceived", "complete_task", TRUE, by, t) :
            t \in SignalTasks, by \in ApproverIds}
    ELSE {}

\* the events the executor or the timer service can deliver to the suspended coroutine
PendingEvents(w) ==
    IF w.awaiting = "activity"
    THEN {Ev("ActivityCompleted", w.pc, r.ok, r.who, "none") : r \in ActivityResults(w.pc)}
         \cup {Ev("ActivityFailed", w.pc, FALSE, 0, "none")}
    ELSE IF w.awaiting = "timer" /\ w.pc \in WaitSites
    THEN {Ev("TimerFired", w.pc, TRUE, WaitTimeout(w.pc), "none")}
    ELSE {}

\* ------------------------------------------------------- derived notions
Kinds(k) == {i \in 1..Len(history) : history[i].kind = k}

\* the positions of the events of kind k recorded for call site (or signal name) s
EventAt(k, s) == {i \in 1..Len(history) : history[i].kind = k /\ history[i].site = s}

Has(k, s) == EventAt(k, s) # {}

\* a faulty variant: a run is never taken to have ended
TerminalNever == FALSE

\* the run has ended: its terminal event is the last one of the history
Terminal ==
    /\ history # <<>>
    /\ history[Len(history)].kind \in {"WorkflowCompleted", "WorkflowFailed"}

\* the answer of a query handler; NoQuery stands for "no query being answered"
QueryResult(query, status, employee_id, completed_tasks, total_completed) ==
    [query |-> query, status |-> status, employee_id |-> employee_id,
     completed_tasks |-> completed_tasks, total_completed |-> total_completed]

NoQuery == QueryResult("none", "none", 0, {}, 0)

\* the query handlers of the two workflows
get_status(w, inp) ==
    IF inp.type = "LeaveApproval" THEN QueryResult("get_status", "running", 0, {}, 0)
    ELSE QueryResult("get_status", "running", w.employee_id, CompletedKeys(w),
                     NumCompleted(w))

get_completed_tasks(w) ==
    QueryResult("get_completed_tasks", "none", 0, CompletedKeys(w), NumCompleted(w))

QueryAnswers(w, inp) ==
    IF inp.type = "LeaveApproval" THEN {get_status(w, inp)}
    ELSE IF inp.type = "Onboarding" THEN {get_status(w, inp), get_completed_tasks(w)}
    ELSE {}

\* a faulty variant of a query handler that empties completed_tasks as it reads it
QueryEffectClears(w) == [w EXCEPT !.completed_tasks = [t \in TaskIds |-> NoCompletion]]

\* what running a query handler does to the workflow object: the handlers only read
QueryEffect(w) == w

\* ------------------------------------------------ the leave service's client
RequestIds == {41, 42, 43}

\* f"leave-{request_id}"
WorkflowId(request_id) == <<"leave", request_id>>

WorkflowIds == {WorkflowId(r) : r \in RequestIds}

NoRuns == [id \in WorkflowIds |-> [count |-> 0, open |-> FALSE]]

Returned(id, outcome) == [id |-> id, outcome |-> outcome]

NothingReturned == Returned(<<>>, "none")

\* ---------------------------------------------------------------- actions
\* ------------------------------------------------------- the History Store
\* the instances and the writers (workers) of the store
InstanceIds == {"i1", "i2"}

Writers == {"w1", "w2"}

\* a stored event: its sequence number and the writer that appended it
Stored(sequence, writer) == [sequence |-> sequence, writer |-> writer]

EmptyStore == [id \in InstanceIds |-> <<>>]

\* the store's current head of an instance: the number of the last event, 0 if none
StoreHead(s, instanceId) == Len(s[instanceId])

\* what a writer holds between reading an instance and appending to it
Pending(instanceId, expectedSequence) ==
    [instanceId |-> instanceId, expectedSequence |-> expectedSequence]

NoPending == Pending("none", 0)

\* the outcome of an Append call
AppendOutcome(writer, error) == [writer |-> writer, error |-> error]

NoAppend == AppendOutcome("none", "none")

\* a faulty variant of Append without the check of expectedSequence
HistoryAppendUnchecked(s, instanceId, expectedSequence, writer) ==
    [store |-> [s EXCEPT ![instanceId] =
                    Append(@, Stored(expectedSequence + 1, writer))],
     error |-> "none"]

\* Append(instanceId, expectedSequence, event): the event is stored as number
\* expectedSequence + 1 when expectedSequence is the current head; otherwise the
\* call fails with ConcurrencyConflict and stores nothing
HistoryAppend(s, instanceId, expectedSequence, writer) ==
    IF expectedSequence = StoreHead(s, instanceId)
    THEN [store |-> [s EXCEPT ![instanceId] =
                        Append(@, Stored(expectedSequence + 1, writer))],
          error |-> "none"]
    ELSE [store |-> s, error |-> "ConcurrencyConflict"]

\* ---------------------------------------------------------- the Worker Pool
\* what a worker is doing: idle, holding an instance id pulled from the queue, or
\* running the engine for an instance under its lock
Work(phase, instanceId) == [phase |-> phase, instanceId |-> instanceId]

Idle == Work("idle", "none")

\* --------------------------------------------------------- the Timer Service
WaitIds == {"t1", "t2"}

\* a PendingWait row of kind Timer: absent, pending with its deadline, or deleted
\* because the timer fired or was cancelled
Row(status, deadline) == [status |-> status, deadline |-> deadline]

NoRow == Row("none", 0)

\* the pending rows whose deadline has passed at time now
Overdue(rows, now) ==
    {id \in WaitIds : rows[id].status = "pending" /\ rows[id].deadline <= now}

\* the pending rows whose deadline is still in the future at time now
Future(rows, now) ==
    {id \in WaitIds : rows[id].status = "pending" /\ rows[id].deadline > now}

\* a faulty variant of the re-scan: only the rows with a future deadline are looked at
RescanFutureOnly(rows, counts, now) ==
    [rows |-> rows, armed |-> Future(rows, now), fired |-> counts]

\* the re-scan of a restart: rows with a future deadline are re-armed, rows whose
\* deadline has passed fire at once
Rescan(rows, counts, now) ==
    [rows |-> [id \in WaitIds |->
                 IF id \in Overdue(rows, now) THEN Row("fired", rows[id].deadline)
                 ELSE rows[id]],
     armed |-> Future(rows, now),
     fired |-> [id \in WaitIds |->
                 IF id \in Overdue(rows, now) THEN counts[id] + 1 ELSE counts[id]]]

\* ----------------------------------------------------- Activity Executor
\* RetryPolicy: intervals in seconds
RetryPolicy(initialInterval, backoffCoefficient, maxInterval, maxAttempts) ==
    [initialInterval |-> initialInterval, backoffCoefficient |-> backoffCoefficient,
     maxInterval |-> maxInterval, maxAttempts |-> maxAttempts]

\* no activity call in progress
NoPolicy == RetryPolicy(0, 0, 0, 0)

\* the policies of the workflows' call sites
LeavePolicy ==
    RetryPolicy(initial_interval, backoff_coefficient, maximum_interval_leave,
                maximum_attempts)

OnboardingPolicy ==
    RetryPolicy(initial_interval, backoff_coefficient, maximum_interval_onboarding,
                maximum_attempts)

\* the policies of the calls: those of the workflows, and others that reach the cap
\* sooner, or leave the interval constant
RetryPolicies ==
    {LeavePolicy, OnboardingPolicy}
    \cup [initialInterval : {initial_interval, 3},
          backoffCoefficient : {1, backoff_coefficient, 3},
          maxInterval : {maximum_interval_leave, maximum_interval_onboarding},
          maxAttempts : {maximum_attempts, activity_maximum_attempts}]

Min(a, b) == IF a <= b THEN a ELSE b

\* a faulty variant of the delay that grows without the cap
RetryDelayUncapped(policy, n) ==
    policy.initialInterval * policy.backoffCoefficient ^ n

\* the delay slept before the next attempt, at attempt count n
RetryDelay(policy, n) ==
    Min(policy.initialInterval * policy.backoffCoefficient ^ n, policy.maxInterval)

\* --------------------------------------------------- RateLimitMiddleware
\* the client keys of the requests (_get_client_key)
ClientKeys == {"ip_10.0.0.1", "user_ab12cd34"}

\* an entry of self.clients; NoClient stands for a key that is not in the dict
ClientData(n, window_start) == [calls |-> n, window_start |-> window_start]

NoClient == ClientData(0, -1)

\* the result of _is_rate_limited and the dict it leaves behind
Limited(limited, cs) == [limited |-> limited, clients |-> cs]

\* a faulty variant of the test that lets one request more through
is_rate_limited_late(cs, client_key, now) ==
    IF cs[client_key] = NoClient
    THEN Limited(FALSE, [cs EXCEPT ![client_key] = ClientData(1, now)])
    ELSE IF now - cs[client_key].window_start > period
    THEN Limited(FALSE, [cs EXCEPT ![client_key] = ClientData(1, now)])
    ELSE IF cs[client_key].calls > calls
    THEN Limited(TRUE, cs)
    ELSE Limited(FALSE, [cs EXCEPT ![client_key].calls = @ + 1])

\* _is_rate_limited
is_rate_limited(cs, client_key, now) ==
    IF cs[client_key] = NoClient
    THEN Limited(FALSE, [cs EXCEPT ![client_key] = ClientData(1, now)])
    ELSE IF now - cs[client_key].window_start > period
    THEN Limited(FALSE, [cs EXCEPT ![client_key] = ClientData(1, now)])
    ELSE IF cs[client_key].calls >= calls
    THEN Limited(TRUE, cs)
    ELSE Limited(FALSE, [cs EXCEPT ![client_key].calls = @ + 1])

\* the outcome of a dispatch, and its time
Answer(client_key, status_code, at) ==
    [client_key |-> client_key, status_code |-> status_code, at |-> at]

NoAnswer == Answer("", 0, -1)

\* -------------------------------------------------------- attendance-svc
\* the calls handled at the same time, all on one day
AttendanceCalls == {"a1", "a2"}

\* the employees of the calls: request.employee_id of a check-in, the token's user_id
\* of a check-out
Attendants == {7, 8}

\* hours between check-in and check-out, and hours of break, of a check-out
ElapsedHours == {0, 8}

BreakHours == {0, 1}

\* the columns of ShiftORM that the handlers test or write; total_hours -1 is None
Shift(employee_id, status, total_hours) ==
    [employee_id |-> employee_id, status |-> status, total_hours |-> total_hours]

\* select ... where employee_id = e and date = today and status = 'active' (for a
\* check-out also check_out is null, which holds of every active row)
ActiveShifts(rows, e) ==
    {i \in DOMAIN rows : rows[i].employee_id = e /\ rows[i].status = "active"}

\* a handler: the endpoint, the employee, the position in the handler, the id of the
\* row loaded into the session (0: none), the total_hours it computed, the response
Check(op, employee_id, pc, loaded, total_hours, status_code) ==
    [op |-> op, employee_id |-> employee_id, pc |-> pc, loaded |-> loaded,
     total_hours |-> total_hours, status_code |-> status_code]

NoCheck == Check("none", 0, "idle", 0, -1, 0)

\* max(0, total_hours)
NonNegative(hours) == IF hours < 0 THEN 0 ELSE hours

\* ------------------------------------------------------------- leave-svc
\* the calls handled at the same time
LeaveCalls == {"c1", "c2"}

\* the request ids with a row in the database, and the request ids of the calls
StoredRequestIds == {41}

CalledRequestIds == {41, 42}

\* user_id of the token of each call
UserId(c) == IF c = "c1" THEN 7 ELSE 8

\* the columns of LeaveRequestORM that the two handlers write
LeaveRequestRow(status, approved_by, rejected_by) ==
    [status |-> status, approved_by |-> approved_by, rejected_by |-> rejected_by]

\* a handler: the endpoint called, the request id, the position in the handler, the
\* row as loaded into the handler's session, and the status code of the response
Handler(op, request_id, pc, loaded, status_code) ==
    [op |-> op, request_id |-> request_id, pc |-> pc, loaded |-> loaded,
     status_code |-> status_code]

NoHandler == Handler("none", 0, "idle", LeaveRequestRow("none", 0, 0), 0)

\* a Celery task sent with .delay
Delayed(task, action, call) == [task |-> task, action |-> action, call |-> call]

\* the handler's assignments to the loaded row (approve lines 313-318, reject 364-367)
Decide(op, row, user_id) ==
    IF op = "approve" THEN [row EXCEPT !.status = "approved", !.approved_by = user_id]
    ELSE [row EXCEPT !.status = "rejected", !.rejected_by = user_id]

\* session.commit(): the UPDATE writes the columns the handler assigned, whatever the
\* row holds by now
Committed(op, row, decided) ==
    IF op = "approve"
    THEN [row EXCEPT !.status = decided.status, !.approved_by = decided.approved_by]
    ELSE [row EXCEPT !.status = decided.status, !.rejected_by = decided.rejected_by]

\* the tasks a handler dispatches after its commit (approve lines 324-332, reject 373)
Dispatched(op, c) ==
    IF op = "approve"
    THEN <<Delayed("update_leave_balance", "approve", c),
           Delayed("notify_leave_request", "approved", c)>>
    ELSE <<Delayed("notify_leave_request", "rejected", c)>>

\* ---------------------------------------------------------- employee-svc
\* the employee ids of the calls: EMP001 and EMP002 are in the store from the start
EmployeeIds == {"EMP001", "EMP002", "EMP003"}

\* the e-mail addresses of the calls
Emails == {"jane.smith@example.com", "new@example.com"}

\* the role lists of the callers' tokens
RoleLists == {{"employee"}, {"employee.self"}, {"employee.admin"}, {"hr.admin"}}

\* AuthContext of an authenticated caller
AuthContexts == [user_id : {"EMP003"}, roles : RoleLists]

\* AuthContext.has_role
has_role(auth, role) == role \in auth.roles

\* AuthContext.has_any_role
has_any_role(auth, roles) == auth.roles \cap roles # {}

RequireEmployeeManager == {"employee.manager", "employee.admin", "hr.admin"}

RequireEmployeeSelf == {"employee.self", "employee.manager", "employee.admin", "hr.admin"}

\* the fields of an Employee that the handlers read or decide
Employee(email, status, end_date) ==
    [email |-> email, status |-> status, end_date |-> end_date]

\* no entry under the key
NoEmployee == [email |-> "", status |-> "absent", end_date |-> "None"]

\* the keys of the store
EmployeeKeys(emps) == {id \in EmployeeIds : emps[id] # NoEmployee}

\* the module-level store
InitEmployees ==
    [id \in EmployeeIds |->
       IF id = "EMP001" THEN Employee("jane.smith@example.com", "active", "None")
       ELSE IF id = "EMP002" THEN Employee("john.doe@example.com", "active", "None")
       ELSE NoEmployee]

\* a call and the status code of its response
Call(op, employee_id, email, auth, status_code) ==
    [op |-> op, employee_id |-> employee_id, email |-> email, auth |-> auth,
     status_code |-> status_code]

NoCall == Call("none", "", "", [user_id |-> "", roles |-> {}], 0)

\* the statuses an update sets: "unset" leaves the field out of the request body
UpdateStatuses == {"unset", "on_leave"}

\* a removal of the entry, which the handler does not do
Removed(emps, employee_id) == [emps EXCEPT ![employee_id] = NoEmployee]

\* delete_employee's change of the store: the entry stays, terminated as of today
Deleted(emps, employee_id) ==
    [emps EXCEPT ![employee_id] = Employee(emps[employee_id].email, "terminated", "today")]

Init ==
    /\ input \in Inputs
    /\ wf = InitWf(input)
    /\ history = <<>>
    /\ attempt = 0
    /\ nSignals = 0
    /\ lastQuery = NoQuery
    /\ runs = NoRuns
    /\ returned = NothingReturned
    /\ store = EmptyStore
    /\ pending = [w \in Writers |-> NoPending]
    /\ lastAppend = NoAppend
    /\ queue = <<>>
    /\ lockedBy = [id \in InstanceIds |-> "none"]
    /\ working = [w \in Writers |-> Idle]
    /\ clock = 0
    /\ waitRows = [id \in WaitIds |-> NoRow]
    /\ armed = {}
    /\ firings = [id \in WaitIds |-> 0]
    /\ serviceUp = TRUE
    /\ MOCK_EMPLOYEES = InitEmployees
    /\ empCall = NoCall
    /\ leave_request = LeaveRequestRow("pending", 0, 0)
    /\ handlers = [c \in LeaveCalls |-> NoHandler]
    /\ delayed = <<>>
    /\ clients = [k \in ClientKeys |-> NoClient]
    /\ wallTime = 0
    /\ answered = NoAnswer
    /\ passed = [k \in ClientKeys |-> <<>>]
    /\ shifts = <<>>
    /\ checkCalls = [c \in AttendanceCalls |-> NoCheck]
    /\ processing = 0
    /\ retryPolicy = NoPolicy
    /\ retryNo = 0
    /\ slept = 0

\* one workflow task: the events es are appended, the coroutine reacts to them and
\* runs on to its next suspension point, whose call is appended with them
WorkflowTask(es) ==
    /\ lastQuery = NoQuery
    /\ history' = history \o es \o TaskCommand(wf, input, es)
    /\ wf' = TaskState(wf, input, es)
    /\ UNCHANGED lastQuery

\* the first workflow task of the run
StartRun ==
    /\ history = <<>>
    /\ WorkflowTask(<<>>)
    /\ attempt' = 0
    /\ UNCHANGED <<input, nSignals>>
    /\ UNCHANGED clientVars
    /\ UNCHANGED storeVars
    /\ UNCHANGED serviceVars

\* a faulty variant: the failed attempt is recorded in the history
ActivityRetryRecorded ==
    /\ ~Terminal
    /\ wf.awaiting = "activity"
    /\ attempt + 1 < MaxAttempts(wf.pc)
    /\ attempt' = attempt + 1
    /\ lastQuery = NoQuery
    /\ history' = Append(history, Ev("ActivityFailed", wf.pc, FALSE, 0, "none"))
    /\ UNCHANGED <<input, wf, nSignals, lastQuery>>
    /\ UNCHANGED clientVars
    /\ UNCHANGED storeVars
    /\ UNCHANGED serviceVars

\* an attempt failed and the retry policy allows another one
ActivityRetry ==
    /\ ~Terminal
    /\ wf.awaiting = "activity"
    /\ attempt + 1 < MaxAttempts(wf.pc)
    /\ attempt' = attempt + 1
    /\ lastQuery = NoQuery
    /\ UNCHANGED <<input, wf, history, nSignals, lastQuery>>
    /\ UNCHANGED clientVars
    /\ UNCHANGED storeVars
    /\ UNCHANGED serviceVars

\* the last allowed attempt failed: execute_activity raises
ActivityFailed ==
    /\ ~Terminal
    /\ wf.awaiting = "activity"
    /\ attempt + 1 >= MaxAttempts(wf.pc)
    /\ WorkflowTask(<<Ev("ActivityFailed", wf.pc, FALSE, 0, "none")>>)
    /\ attempt' = 0
    /\ UNCHANGED <<input, nSignals>>
    /\ UNCHANGED clientVars
    /\ UNCHANGED storeVars
    /\ UNCHANGED serviceVars

\* an attempt returned: execute_activity returns its result
ActivityCompleted ==
    /\ ~Terminal
    /\ wf.awaiting = "activity"
    /\ \E r \in ActivityResults(wf.pc) :
          WorkflowTask(<<Ev("ActivityCompleted", wf.pc, r.ok, r.who, "none")>>)
    /\ attempt' = 0
    /\ UNCHANGED <<input, nSignals>>
    /\ UNCHANGED clientVars
    /\ UNCHANGED storeVars
    /\ UNCHANGED serviceVars

\* a faulty variant: a timer that was started fires whether or not its wait is still
\* pending
TimerFiredUncancelled ==
    /\ ~Terminal
    /\ \E ws \in WaitSites :
          /\ Has("TimerStarted", ws)
          /\ WorkflowTask(<<Ev("TimerFired", ws, TRUE, WaitTimeout(ws), "none")>>)
    /\ UNCHANGED <<input, attempt, nSignals>>
    /\ UNCHANGED clientVars
    /\ UNCHANGED storeVars
    /\ UNCHANGED serviceVars

\* the timer of the pending wait fires: wait_condition raises TimeoutError
TimerFired ==
    /\ ~Terminal
    /\ wf.pc \in WaitSites
    /\ wf.awaiting = "timer"
    /\ WorkflowTask(<<Ev("TimerFired", wf.pc, TRUE, WaitTimeout(wf.pc), "none")>>)
    /\ UNCHANGED <<input, attempt, nSignals>>
    /\ UNCHANGED clientVars
    /\ UNCHANGED storeVars
    /\ UNCHANGED serviceVars

\* a client signals the running instance
SendSignal ==
    /\ ~Terminal
    /\ history # <<>>
    /\ nSignals < (IF input.type = "LeaveApproval" THEN MaxSignals ELSE MaxTaskSignals)
    /\ \E e \in SignalEvents(input) : WorkflowTask(<<e>>)
    /\ nSignals' = nSignals + 1
    /\ UNCHANGED <<input, attempt>>
    /\ UNCHANGED clientVars
    /\ UNCHANGED storeVars
    /\ UNCHANGED serviceVars

\* a client queries the instance: the worker runs the query handler
Query ==
    /\ history # <<>>
    /\ lastQuery = NoQuery
    /\ lastQuery' \in QueryAnswers(wf, input)
    /\ wf' = QueryEffect(wf)
    /\ UNCHANGED <<input, history, attempt, nSignals>>
    /\ UNCHANGED clientVars
    /\ UNCHANGED storeVars
    /\ UNCHANGED serviceVars

\* the response has been handed to the client
QueryAnswered ==
    /\ lastQuery # NoQuery
    /\ lastQuery' = NoQuery
    /\ UNCHANGED <<input, wf, history, attempt, nSignals>>
    /\ UNCHANGED clientVars
    /\ UNCHANGED storeVars
    /\ UNCHANGED serviceVars

\* the worker restarts: the workflow object is lost and rebuilt by replaying the
\* history; the activity in flight stays with the executor
Restart ==
    /\ lastQuery = NoQuery
    /\ wf' = Replay(input, history)
    /\ UNCHANGED <<input, history, attempt, nSignals, lastQuery>>
    /\ UNCHANGED clientVars
    /\ UNCHANGED storeVars
    /\ UNCHANGED serviceVars

Next ==
    \/ StartRun
    \/ ActivityRetry
    \/ ActivityFailed
    \/ ActivityCompleted
    \/ TimerFired
    \/ SendSignal
    \/ Query
    \/ QueryAnswered
    \/ Restart

Spec == Init /\ [][Next]_vars

\* ------------------------------------------------------------ cancellation
\* a faulty variant: the cancellation is recorded as an event that ends nothing
CancelEventAsSignal == Ev("SignalReceived", "cancel", FALSE, 0, "cancelled")

\* the synthetic event WorkflowFailed(reason=cancelled)
CancelEvent == Ev("WorkflowFailed", "cancel", FALSE, 0, "cancelled")

\* a running instance is cancelled: the synthetic event is appended directly
Cancel ==
    /\ history # <<>>
    /\ ~Terminal
    /\ lastQuery = NoQuery
    /\ history' = Append(history, CancelEvent)
    /\ wf' = Apply(wf, input, CancelEvent)
    /\ UNCHANGED <<input, attempt, nSignals, lastQuery>>
    /\ UNCHANGED clientVars
    /\ UNCHANGED storeVars
    /\ UNCHANGED serviceVars

CancelNext == Next \/ Cancel

CancelSpec == Init /\ [][CancelNext]_vars

\* ------------------------------------------- starting workflows by request id
\* start_leave_workflow(request_id, ...): client.start_workflow is called with
\* id=f"leave-{request_id}" and the task queue only, so no id reuse or conflict policy
\* is asked for and the call's exception is not caught. The engine then refuses the
\* start while a run is open under the id (WorkflowAlreadyStartedError reaches the
\* caller), and starts a new run under the id once the earlier run is closed; the
\* handle's id is returned.
start_leave_workflow(request_id) ==
    LET id == WorkflowId(request_id)
    IN  IF runs[id].open
        THEN /\ returned' = Returned(id, "WorkflowAlreadyStartedError")
             /\ UNCHANGED runs
        ELSE /\ runs[id].count < MaxRuns
             /\ runs' = [runs EXCEPT ![id] = [count |-> @.count + 1, open |-> TRUE]]
             /\ returned' = Returned(id, "handle")

StartLeaveWorkflow ==
    /\ \E r \in RequestIds : start_leave_workflow(r)
    /\ UNCHANGED instanceVars
    /\ UNCHANGED storeVars
    /\ UNCHANGED serviceVars

\* the run open under a workflow id ends (run returned or raised)
RunCloses ==
    /\ \E id \in WorkflowIds :
          /\ runs[id].open
          /\ runs' = [runs EXCEPT ![id].open = FALSE]
    /\ UNCHANGED returned
    /\ UNCHANGED instanceVars
    /\ UNCHANGED storeVars
    /\ UNCHANGED serviceVars

StartNext == StartLeaveWorkflow \/ RunCloses

StartSpec == Init /\ [][StartNext]_vars

\* a writer reads an instance's history (Read) and remembers its head
ReadHistory ==
    /\ \E w \in Writers, id \in InstanceIds :
          pending' = [pending EXCEPT ![w] = Pending(id, StoreHead(store, id))]
    /\ UNCHANGED <<store, lastAppend>>
    /\ UNCHANGED instanceVars
    /\ UNCHANGED clientVars
    /\ UNCHANGED serviceVars

\* a writer appends its next event to the instance it has read
AppendEvent ==
    /\ \E w \in Writers :
          /\ pending[w] # NoPending
          /\ pending[w].expectedSequence < MaxStored
          /\ LET r == HistoryAppend(store, pending[w].instanceId,
                                    pending[w].expectedSequence, w)
             IN  /\ store' = r.store
                 /\ lastAppend' = AppendOutcome(w, r.error)
          /\ pending' = [pending EXCEPT ![w] = NoPending]
    /\ UNCHANGED instanceVars
    /\ UNCHANGED clientVars
    /\ UNCHANGED serviceVars

StoreNext == ReadHistory \/ AppendEvent

StoreSpec == Init /\ [][StoreNext]_vars

\* the state outside the Worker Pool
notPoolVars == <<instanceVars, clientVars, storeVars, timerVars, httpVars, executorVars>>

\* a new instance, a TimerFired or a SignalReceived enqueues the instance
Enqueue ==
    /\ Len(queue) < MaxQueued
    /\ \E id \in InstanceIds : queue' = Append(queue, id)
    /\ UNCHANGED <<lockedBy, working>>
    /\ UNCHANGED notPoolVars

\* an idle worker pulls the next instance id from the dispatch queue
Pull ==
    /\ queue # <<>>
    /\ \E w \in Writers :
          /\ working[w] = Idle
          /\ working' = [working EXCEPT ![w] = Work("pulled", queue[1])]
    /\ queue' = Tail(queue)
    /\ UNCHANGED lockedBy
    /\ UNCHANGED notPoolVars

\* a faulty variant: the worker starts on the instance without taking its lock
AcquireLockUnchecked(w) ==
    /\ working[w].phase = "pulled"
    /\ working' = [working EXCEPT ![w].phase = "processing"]
    /\ UNCHANGED lockedBy

\* the worker takes the advisory lock of the instance it pulled, once it is free
AcquireLock(w) ==
    /\ working[w].phase = "pulled"
    /\ lockedBy[working[w].instanceId] = "none"
    /\ lockedBy' = [lockedBy EXCEPT ![working[w].instanceId] = w]
    /\ working' = [working EXCEPT ![w].phase = "processing"]

Acquire ==
    /\ \E w \in Writers : AcquireLock(w)
    /\ UNCHANGED queue
    /\ UNCHANGED notPoolVars

\* the engine ran to quiescence: the worker releases the lock, and re-enqueues the
\* instance if it produced a new pending wait
Release ==
    /\ \E w \in Writers :
          /\ working[w].phase = "processing"
          /\ lockedBy' = [lockedBy EXCEPT ![working[w].instanceId] =
                              IF @ = w THEN "none" ELSE @]
          /\ working' = [working EXCEPT ![w] = Idle]
          /\ \/ UNCHANGED queue
             \/ /\ Len(queue) < MaxQueued
                /\ queue' = Append(queue, working[w].instanceId)
    /\ UNCHANGED notPoolVars

PoolNext == Enqueue \/ Pull \/ Acquire \/ Release

PoolSpec == Init /\ [][PoolNext]_vars

\* the state outside the Timer Service
notTimerVars == <<instanceVars, clientVars, storeVars, poolVars, httpVars, executorVars>>

\* StartTimer(instanceId, waitId, deadline): the row is written and the timer armed
StartTimer ==
    /\ serviceUp
    /\ \E id \in WaitIds, deadline \in (clock + 1)..MaxClock :
          /\ waitRows[id] = NoRow
          /\ waitRows' = [waitRows EXCEPT ![id] = Row("pending", deadline)]
          /\ armed' = armed \cup {id}
    /\ UNCHANGED <<clock, firings, serviceUp>>
    /\ UNCHANGED notTimerVars

\* CancelTimer(instanceId, waitId): the signal won the race
CancelTimer ==
    /\ serviceUp
    /\ \E id \in WaitIds :
          /\ waitRows[id].status = "pending"
          /\ waitRows' = [waitRows EXCEPT ![id].status = "cancelled"]
          /\ armed' = armed \ {id}
    /\ UNCHANGED <<clock, firings, serviceUp>>
    /\ UNCHANGED notTimerVars

\* an armed timer reaches its deadline: TimerFired is delivered if the row still
\* exists
FireTimer ==
    /\ serviceUp
    /\ \E id \in armed :
          /\ waitRows[id].deadline <= clock
          /\ armed' = armed \ {id}
          /\ IF waitRows[id].status = "pending"
             THEN /\ waitRows' = [waitRows EXCEPT ![id].status = "fired"]
                  /\ firings' = [firings EXCEPT ![id] = @ + 1]
             ELSE UNCHANGED <<waitRows, firings>>
    /\ UNCHANGED <<clock, serviceUp>>
    /\ UNCHANGED notTimerVars

\* time passes; a running service lets no armed timer run past its deadline
Tick ==
    /\ clock < MaxClock
    /\ serviceUp => \A id \in armed : clock < waitRows[id].deadline
    /\ clock' = clock + 1
    /\ UNCHANGED <<waitRows, armed, firings, serviceUp>>
    /\ UNCHANGED notTimerVars

\* the service stops: the armed timers, held in memory, are gone
Crash ==
    /\ serviceUp
    /\ serviceUp' = FALSE
    /\ armed' = {}
    /\ UNCHANGED <<clock, waitRows, firings>>
    /\ UNCHANGED notTimerVars

\* the service restarts and re-scans the PendingWait rows of kind Timer
RestartService ==
    /\ ~serviceUp
    /\ serviceUp' = TRUE
    /\ LET r == Rescan(waitRows, firings, clock)
       IN  /\ waitRows' = r.rows
           /\ armed' = r.armed
           /\ firings' = r.fired
    /\ UNCHANGED clock
    /\ UNCHANGED notTimerVars

TimerNext == StartTimer \/ CancelTimer \/ FireTimer \/ Tick \/ Crash \/ RestartService

TimerSpec == Init /\ [][TimerNext]_vars

\* the steps of the engine, the executor and the timer service: a started run is
\* scheduled, an attempt of the activity in flight ends, a pending timer fires. A query
\* is answered in finite time, and queries never keep these steps from being taken.
Progress == StartRun \/ ActivityRetry \/ ActivityFailed \/ ActivityCompleted \/ TimerFired

FairSpec == Spec /\ SF_vars(Progress) /\ WF_vars(QueryAnswered)

\* ================================================================ claims
\* the decision a signal event carries
SignalDecision(e) == Decision(e.ok, e.who, e.note)

\* no activity of the run has exhausted its retries
NoActivityFailed == Kinds("ActivityFailed") = {}

\* C1: once the 7-day timer of the manager wait has fired, the request is rejected by
\* the manager step with the timeout reason: that TimerFired is the only one of the
\* history, no manager signal precedes it, a manager signal that arrives later changes
\* nothing, no HR wait is started and the request is never approved. Should an
\* activity exhaust its retries on the way, the run ends with status error instead.
C1_ManagerTimeoutRejectsOnce ==
    (input.type = "LeaveApproval" /\ Has("TimerFired", "wait_manager")) =>
        /\ Cardinality(Kinds("TimerFired")) = 1
        /\ \A i \in EventAt("TimerFired", "wait_manager") :
              /\ history[i].who = ManagerTimeoutDays
              /\ \A j \in EventAt("SignalReceived", "manager_approval") : j > i
        /\ ~Has("TimerStarted", "wait_hr")
        /\ wf.manager_decision \in {NoDecision, ManagerTimeoutDecision(input)}
        /\ wf.result.status # "approved"
        /\ (Terminal /\ Kinds("ActivityFailed") = {}) =>
              /\ wf.result = Result("rejected", "manager", "manager_timeout", 0, 0, 0)
              /\ history[Len(history)].note = "rejected"

\* the manager timer fired, an approving manager signal came afterwards, and the run
\* ended rejected for the timeout
C1_Witness ==
    /\ Terminal
    /\ Has("TimerFired", "wait_manager")
    /\ \E j \in EventAt("SignalReceived", "manager_approval") : history[j].ok
    /\ wf.result.reason = "manager_timeout"

\* C2 (as stated): once the manager's signalled decision is taken, a refusal leads to
\* the rejection with no HR step at all, and an approval leads to the HR step exactly
\* when the input's hr_required flag is set, and straight to the final approval
\* otherwise.
C2_ManagerDecisionRouting ==
    (/\ input.type = "LeaveApproval"
     /\ wf.manager_decision # NoDecision
     /\ ~Has("TimerFired", "wait_manager")) =>
        IF ~wf.manager_decision.approved
        THEN /\ wf.rejected_by = "manager"
             /\ ~Has("ActivityScheduled", "notify_hr_pending")
             /\ ~Has("TimerStarted", "wait_hr")
             /\ wf.hr_decision = NoDecision
        ELSE Has("ActivityCompleted", "notify_manager_approved") =>
                /\ Has("ActivityScheduled", "notify_hr_pending") <=> input.hr_required
                /\ ~input.hr_required => Has("ActivityScheduled", "approve_update")

\* C3: in the HR step the HR notification has completed before the 3-day wait begins
\* (and before any HR decision is taken); the decision taken is the body of an HR
\* signal or, once the timer has fired with no HR signal before it, the timeout
\* refusal; a refusal leads to the rejection by HR with the decision's reason, an
\* approval to the final approval by HR, and a run that entered the HR step ends with
\* one of the two (or with status error when an activity exhausted its retries).
C3_HrStepOutcomes ==
    input.type = "LeaveApproval" =>
        /\ \A i \in EventAt("TimerStarted", "wait_hr") :
              /\ history[i].who = HrTimeoutDays
              /\ \E j \in EventAt("ActivityCompleted", "notify_hr_pending") : j < i
        /\ \A i \in EventAt("TimerFired", "wait_hr") :
              /\ \A j \in EventAt("SignalReceived", "hr_approval") : j > i
              /\ wf.hr_decision \in {NoDecision, HrTimeoutDecision(input)}
        /\ wf.hr_decision # NoDecision =>
              /\ Has("ActivityCompleted", "notify_hr_pending")
              /\ \/ Has("TimerFired", "wait_hr")
                 \/ \E j \in EventAt("SignalReceived", "hr_approval") :
                        SignalDecision(history[j]) = wf.hr_decision
              /\ IF wf.hr_decision.approved
                 THEN /\ wf.rejected_by = "none"
                      /\ wf.result \in
                            {NoResult, LeaveErrorResult(wf),
                             Result("approved", "hr", "none", wf.hr_decision.approver_id, 0, 0)}
                 ELSE /\ wf.rejected_by = "hr"
                      /\ wf.result \in
                            {NoResult, LeaveErrorResult(wf),
                             Result("rejected", "hr", wf.hr_decision.comments, 0, 0, 0)}
        /\ (Terminal /\ NoActivityFailed /\ Has("ActivityCompleted", "notify_hr_pending")) =>
              /\ wf.hr_decision # NoDecision
              /\ wf.result.status = IF wf.hr_decision.approved THEN "approved" ELSE "rejected"
              /\ history[Len(history)].note = wf.result.status

\* the HR timer fired and the run ended rejected by HR for the timeout
C3_Witness ==
    /\ Terminal
    /\ Has("TimerFired", "wait_hr")
    /\ wf.result = Result("rejected", "hr", "hr_timeout", 0, 0, 0)

\* the wait that reads the signal e, and whether nothing is buffered for it yet
WaitOf(e) ==
    IF e.site \in SignalNames THEN SignalWait(e.site)
    ELSE CHOOSE ws \in OnboardingWaitSites : WaitTask(ws) = e.note

Unsignalled(w, e) ==
    IF e.site \in SignalNames THEN w.signals[e.site] = NoDecision
    ELSE w.completed_tasks[e.note] = NoCompletion

\* the activities and the end of the run among the calls cmds
Scheduled(cmds) == SelectSeq(cmds, LAMBDA c : c.kind # "TimerStarted")

\* C4: a decision or task-completion signal delivered while the coroutine is not at
\* the wait that reads it commutes with the next event the coroutine receives: whether
\* the signal comes before that event (and so before the wait is reached) or after it
\* (after the wait began, if the event leads there; the run must not have ended with
\* the event, else the signal cannot come after it), the workflow object ends up the
\* same and the same activities are scheduled, the wait does not stay pending once the
\* signal is in, and no wait is ever left blocked on a condition that already holds.
\* By induction over the events in between, this gives the same for a signal
\* delivered any number of steps before its wait.
C4_SignalOrderIndependence ==
    /\ wf.pc \in WaitSites => ~WaitCondition(wf)
    /\ \A s \in SignalEvents(input) :
          (wf.pc # WaitOf(s) /\ Unsignalled(wf, s) /\ lastQuery = NoQuery) =>
            \A e \in PendingEvents(wf) :
                LET early1 == TaskState(wf, input, <<s>>)
                    early2 == TaskState(early1, input, <<e>>)
                    late1  == TaskState(wf, input, <<e>>)
                    late2  == TaskState(late1, input, <<s>>)
                IN  late1.pc # "done" =>
                      /\ early2 = late2
                      /\ Scheduled(TaskCommand(wf, input, <<s>>)
                                   \o TaskCommand(early1, input, <<e>>))
                           = Scheduled(TaskCommand(wf, input, <<e>>)
                                       \o TaskCommand(late1, input, <<s>>))
                      /\ late1.pc = WaitOf(s) =>
                            /\ late1.awaiting = "timer"
                            /\ late2.pc # WaitOf(s)

\* both decisions were signalled before their waits were reached (no timer was ever
\* started) and the run ended approved by HR
C4_Witness ==
    /\ Terminal
    /\ Kinds("TimerStarted") = {}
    /\ Has("SignalReceived", "manager_approval")
    /\ Has("SignalReceived", "hr_approval")
    /\ wf.result.status = "approved"
    /\ wf.result.by = "hr"

\* C5: a coroutine suspended at a wait always has a timer pending for it, and under
\* fairness of the engine, executor and timer steps every run reaches its terminal
\* event, whether or not any signal is ever sent.
C5_EveryRunTerminates ==
    /\ [](wf.pc \in WaitSites => (wf.awaiting = "timer" /\ Has("TimerStarted", wf.pc)))
    /\ <>Terminal

\* an onboarding run to which no signal was ever sent has ended after all five of its
\* waits timed out
C5_Witness ==
    /\ Terminal
    /\ input.type = "Onboarding"
    /\ Kinds("SignalReceived") = {}
    /\ Cardinality(Kinds("TimerFired")) = Cardinality(OnboardingWaitSites)

\* C6: no activity call site is scheduled twice in a history, and re-running the
\* coroutine over the history rebuilds the workflow object as it was, with the recorded
\* results (decisions, employee id, completed tasks), issues no call that is not
\* already recorded, and waits for the executor only at a call site for which the
\* history holds no result yet; the executor's attempts belong to that call site.
\* (While a query is being answered the instance is as it was before the query, C10,
\* so the replay is compared in the states between queries.)
C6_AtMostOnceSideEffects ==
    /\ LET scheduled == Kinds("ActivityScheduled")
       IN  Cardinality({history[i].site : i \in scheduled}) = Cardinality(scheduled)
    /\ lastQuery = NoQuery =>
          LET w == Replay(input, history)
          IN  /\ w = wf
              /\ history # <<>> => Command(w) = <<>>
              /\ w.awaiting = "activity" =>
                    /\ Has("ActivityScheduled", w.pc)
                    /\ ~Has("ActivityCompleted", w.pc)
                    /\ ~Has("ActivityFailed", w.pc)
              /\ attempt > 0 => w.awaiting = "activity"

\* an onboarding run has completed with every activity scheduled once and completed,
\* the last of them after a failed attempt or a timeout escalation
C6_Witness ==
    /\ Terminal
    /\ wf.result.status = "completed"
    /\ Cardinality(Kinds("ActivityScheduled")) >= 10
    /\ Cardinality(Kinds("ActivityCompleted")) = Cardinality(Kinds("ActivityScheduled"))
    /\ Kinds("TimerFired") # {}

\* what the engine derives for an instance: its status, the state the coroutine is in,
\* the wait or activity it is suspended at, the decisions taken and the result
DerivedState(w) ==
    [status |-> IF w.pc = "done" THEN w.result.status ELSE "running",
     currentState |-> w.pc,
     pending |-> w.awaiting,
     manager_decision |-> w.manager_decision,
     hr_decision |-> w.hr_decision,
     completed |-> CompletedKeys(w),
     result |-> w.result]

C8_DuplicateStartIdempotent ==
    /\ returned # NothingReturned => returned.outcome = "handle"
    /\ \A id \in WorkflowIds : runs[id].count <= 1

\* C9 (as stated): the answer of get_status follows the history: it never says running
\* once the history holds the terminal event, and for a leave request without HR step
\* that the manager (approver 99) approved and whose run has completed it says completed.
C9_StatusReflectsHistory ==
    lastQuery.query = "get_status" =>
        /\ Terminal => lastQuery.status # "running"
        /\ (/\ input.type = "LeaveApproval"
            /\ ~input.hr_required
            /\ history[Len(history)].kind = "WorkflowCompleted"
            /\ wf.result = Result("approved", "manager", "none", 99, 0, 0)) =>
                lastQuery.status = "completed"

\* C10: answering a query (get_status or get_completed_tasks) changes nothing but the
\* answer: the history, the workflow object (pending wait, completed tasks, employee
\* id, decisions, result), the executor's attempts and the signals stay as they are,
\* and handing the answer over leaves the instance exactly as before the query, so the
\* run goes on as if it had not been asked.
C10_QueryReadOnly ==
    [][(lastQuery' # lastQuery) =>
          /\ UNCHANGED <<input, wf, history, attempt, nSignals, runs, returned>>
          /\ lastQuery = NoQuery => lastQuery' \in QueryAnswers(wf, input)
          /\ lastQuery # NoQuery => lastQuery' = NoQuery]_vars

\* get_completed_tasks is being answered for an onboarding run that is suspended at a
\* wait with tasks completed
C10_Witness ==
    /\ lastQuery.query = "get_completed_tasks"
    /\ lastQuery.total_completed >= 3
    /\ wf.pc \in OnboardingWaitSites
    /\ wf.awaiting = "timer"

\* ------------------------------------------------------------------- C11
\* the unsuccessful results ({"success": False}) no code path looks at: the results of
\* update_leave_request_status in _handle_final_approval and _handle_rejection
ResultIgnoredSites == {"approve_update", "reject_update"}

\* an activity ended in failure and the code has no transition for it: retries were
\* exhausted where no except clause applies (workflows/leave_approval.py, the error
\* handlers themselves), or the result was unsuccessful and is never examined
FailedUnhandled(e) ==
    \/ /\ e.kind = "ActivityFailed"
       /\ e.site \in LeaveRequestSites \cup {"handle_workflow_error", "onboarding_error"}
    \/ /\ e.kind = "ActivityCompleted"
       /\ ~e.ok
       /\ e.site \in ResultIgnoredSites

\* C11 (as stated): an activity failure without a transition of its own is never
\* swallowed: after it no later step is scheduled, the run never finishes as
\* completed, approved or rejected, and when the run ends it ends as WorkflowFailed.
C11_FailureNeverSwallowed ==
    \A i \in DOMAIN history :
        FailedUnhandled(history[i]) =>
            /\ \A j \in DOMAIN history :
                    j > i => history[j].kind \notin {"ActivityScheduled", "TimerStarted"}
            /\ wf.result.status \notin {"approved", "rejected", "completed"}
            /\ Terminal => history[Len(history)].kind = "WorkflowFailed"

\* ------------------------------------------------------------------- C12
\* the events a step appends to the history
Appended == SubSeq(history', Len(history) + 1, Len(history'))

\* the outcome events (ActivityCompleted, ActivityFailed) among the appended events
AppendedOutcomes ==
    {i \in DOMAIN Appended : Appended[i].kind \in {"ActivityCompleted", "ActivityFailed"}}

C13_NoFailureFlicker ==
    attempt > 0 =>
        /\ wf.awaiting = "activity"
        /\ Cardinality(EventAt("ActivityScheduled", wf.pc)) = 1
        /\ ~Has("ActivityFailed", wf.pc)
        /\ ~Has("ActivityCompleted", wf.pc)
        /\ ~Terminal
        /\ lastQuery.query = "get_status" => lastQuery.status = "running"

\* get_status is being answered while assign_equipment of an onboarding run is at its
\* third attempt
C13_Witness ==
    /\ input.type = "Onboarding"
    /\ wf.pc = "assign_equipment"
    /\ attempt = maximum_attempts - 1
    /\ lastQuery.query = "get_status"

\* ------------------------------------------------------------------- C14
\* a signal named n has been delivered and its wait point has not consumed it yet
Buffered(w, n) ==
    /\ w.signals[n] # NoDecision
    /\ (IF n = "manager_approval" THEN w.manager_decision ELSE w.hr_decision) = NoDecision

\* C14 (as stated): a second delivery of a signal whose first delivery is still buffered
\* is rejected: the buffered body stays that of the first delivery.
C14_DuplicateSignalRejected ==
    [][\A n \in SignalNames :
          (/\ Buffered(wf, n)
           /\ Len(history') > Len(history)
           /\ Appended[1].kind = "SignalReceived"
           /\ Appended[1].site = n) => wf'.signals[n] = wf.signals[n]]_vars

\* ------------------------------------------------------------------- C15
\* an activity or a wait of one of the five phases is started
PhaseStart(e) == e.kind \in {"ActivityScheduled", "TimerStarted"} /\ Phase(e.site) > 0

\* C15: in an onboarding run, whenever an activity or a wait of a phase is started,
\* what was in flight before has finished (its result, its timeout or its signal came
\* with this very step), nothing started earlier belongs to a later phase, the same
\* call is not started a second time, and the phase is the one of the previous start
\* or the next one (the first start belongs to phase 1); and a run that returns
\* completed has started something of each of the five phases.
C15_PhasesInOrder ==
    [][(input.type = "Onboarding" /\ Len(history') > Len(history)) =>
          LET e == history'[Len(history')]
              earlier == {i \in DOMAIN history : PhaseStart(history[i])}
              phases == {Phase(history[i].site) : i \in earlier}
          IN  /\ PhaseStart(e) =>
                    /\ \A i \in earlier : /\ Phase(history[i].site) <= Phase(e.site)
                                          /\ history[i].site # e.site
                    /\ IF earlier = {} THEN Phase(e.site) = 1
                       ELSE Phase(e.site) \in phases \/ Phase(e.site) - 1 \in phases
                    /\ wf.awaiting # "none" =>
                          \/ /\ Appended[1].kind \in {"ActivityCompleted", "TimerFired"}
                             /\ Appended[1].site = wf.pc
                          \/ /\ Appended[1].kind = "SignalReceived"
                             /\ wf.pc \in OnboardingWaitSites
                             /\ Appended[1].note = WaitTask(wf.pc)
              /\ (e.kind = "WorkflowCompleted" /\ e.note = "completed") =>
                    phases = 1..5
      ]_vars

\* an onboarding run returned completed after a signal ended one wait and timeouts
\* with their escalations ended others
C15_Witness ==
    /\ input.type = "Onboarding"
    /\ Terminal
    /\ history[Len(history)].note = "completed"
    /\ Has("SignalReceived", "complete_task")
    /\ Has("ActivityCompleted", "escalate_benefits_enrollment")
    /\ ~Has("TimerStarted", "wait_manager_introduction")

\* ------------------------------------------------------------------- C16
\* C16: in an onboarding run, the step in which the timer of a manual-confirmation wait
\* fires schedules the escalation notification of that wait and nothing else, and
\* leaves the run without a result and not ended; and the step in which an escalation
\* notification completes does not end the run either: the coroutine goes on to its
\* next call.
C16_EscalationKeepsRunning ==
    [][(input.type = "Onboarding" /\ Len(history') > Len(history)) =>
          /\ (Appended[1].kind = "TimerFired" /\ Appended[1].site \in OnboardingWaitSites) =>
                /\ Appended[1].site = wf.pc
                /\ Len(Appended) = 2
                /\ Appended[2] = Ev("ActivityScheduled", EscalationSite(wf.pc), TRUE, 0, "none")
                /\ wf'.pc = EscalationSite(wf.pc)
                /\ wf'.awaiting = "activity"
                /\ wf'.result = NoResult
                /\ ~Terminal'
          /\ (/\ Appended[1].kind = "ActivityCompleted"
              /\ Appended[1].site \in OnboardingEscalationSites) =>
                /\ Len(Appended) = 2
                /\ Appended[2].kind \in {"ActivityScheduled", "TimerStarted"}
                /\ wf'.pc \in OnboardingActivitySites \cup OnboardingWaitSites
                /\ wf'.pc # "onboarding_error"
                /\ wf'.result = NoResult
                /\ ~Terminal'
      ]_vars

\* every manual-confirmation wait of an onboarding run has timed out and been
\* escalated, and the run is still going: it is sending the welcome notification
C16_Witness ==
    /\ input.type = "Onboarding"
    /\ \A ws \in OnboardingWaitSites :
          Has("TimerFired", ws) /\ Has("ActivityCompleted", EscalationSite(ws))
    /\ wf.pc = "welcome"
    /\ ~Terminal

\* ------------------------------------------------------------------- C17
\* the escalation of the wait ws has been sent and the task ws waits for has not been
\* signalled as completed
EscalatedUnconfirmed(w, ws) ==
    /\ Has("ActivityCompleted", EscalationSite(ws))
    /\ w.completed_tasks[WaitTask(ws)] = NoCompletion

\* C17 (as stated): after an escalation an onboarding run stays suspended at the same
\* wait with a timer running until the task's completion signal has been received: it
\* does not go on to the next task or phase and does not return completed.
C17_EscalationKeepsWaiting ==
    input.type = "Onboarding" =>
        \A ws \in OnboardingWaitSites :
            EscalatedUnconfirmed(wf, ws) =>
                /\ wf.pc = ws
                /\ wf.awaiting = "timer"
                /\ wf.result.status # "completed"

\* ------------------------------------------------------------------- C18
\* C18: once a run has ended (WorkflowCompleted or WorkflowFailed is in its history) it
\* stays as it is: no step appends an event (so no activity is scheduled, no signal and
\* no timer firing is recorded), the workflow object keeps its position and its result,
\* and no retry is counted; and a result, once set, is never set to something else.
C18_TerminalIsFinal ==
    [][/\ (Kinds("WorkflowCompleted") \cup Kinds("WorkflowFailed") # {}) =>
              /\ history' = history
              /\ wf'.pc = "done"
              /\ wf'.result = wf.result
              /\ wf'.signals = wf.signals
              /\ wf'.completed_tasks = wf.completed_tasks
              /\ attempt' = attempt
              /\ nSignals' = nSignals
       /\ wf.result # NoResult => wf'.result = wf.result
      ]_vars

\* a leave run has returned approved, and a query is being answered after its end
C18_Witness ==
    /\ input.type = "LeaveApproval"
    /\ Terminal
    /\ history[Len(history)].kind = "WorkflowCompleted"
    /\ wf.result.status = "approved"
    /\ nSignals = 1
    /\ lastQuery # NoQuery

\* ------------------------------------------------------------------- C19
\* the positions of the signals that satisfy the condition of the wait ws
SignalsFor(ws) ==
    {i \in DOMAIN history :
        /\ history[i].kind = "SignalReceived"
        /\ IF ws \in LeaveWaitSites THEN SignalWait(history[i].site) = ws
           ELSE history[i].note = WaitTask(ws)}

\* C19: every wait is resolved by one of its two racing events only. Its timer is
\* started at most once and fires at most once, and only after it was started; if it
\* fired, no signal for the wait had arrived before (signals that come later find the
\* wait gone); and if a signal arrived while the timer was running, the wait is over
\* and its timer never fires.
C19_OneEventResolvesWait ==
    \A ws \in WaitSites :
        LET started == EventAt("TimerStarted", ws)
            fired == EventAt("TimerFired", ws)
            signalled == SignalsFor(ws)
        IN  /\ Cardinality(started) <= 1
            /\ Cardinality(fired) <= 1
            /\ fired # {} =>
                  /\ started # {}
                  /\ \A f \in fired : /\ \A t \in started : t < f
                                      /\ \A i \in signalled : f < i
            /\ (started # {} /\ signalled # {} /\ fired = {}) =>
                  /\ wf.pc # ws
                  /\ \A t \in started : \A i \in signalled : t < i

\* the HR signal arrived while the timer of the HR wait was running: the timer never
\* fired and the run went on to return approved
C19_Witness ==
    /\ input.type = "LeaveApproval"
    /\ Has("TimerStarted", "wait_hr")
    /\ Has("SignalReceived", "hr_approval")
    /\ ~Has("TimerFired", "wait_hr")
    /\ Has("TimerStarted", "wait_manager")
    /\ Terminal
    /\ wf.result.status = "approved"

\* ------------------------------------------------------------------- C20
\* the events of every instance are numbered 1, 2, 3, ... in the order they are stored
InSequence(s) ==
    \A id \in InstanceIds : \A k \in DOMAIN s[id] : s[id][k].sequence = k

\* C20: an Append call stores its event exactly when the expected sequence equals the
\* instance's current head, and then the event becomes the new head, one above the old
\* one, in that instance alone; otherwise the call reports ConcurrencyConflict and the
\* store stays as it was. Whatever the interleaving of the writers, every instance's
\* events carry the numbers 1, 2, 3, ... in order: strictly increasing, without gaps,
\* no number twice.
C20_OptimisticAppend ==
    [][/\ lastAppend' # lastAppend \/ store' # store =>
             \E w \in Writers :
                /\ pending[w] # NoPending
                /\ pending'[w] = NoPending
                /\ lastAppend'.writer = w
                /\ LET id == pending[w].instanceId
                       expected == pending[w].expectedSequence
                   IN  IF expected = Len(store[id])
                       THEN /\ lastAppend'.error = "none"
                            /\ Len(store'[id]) = Len(store[id]) + 1
                            /\ SubSeq(store'[id], 1, Len(store[id])) = store[id]
                            /\ store'[id][Len(store'[id])] = Stored(Len(store[id]) + 1, w)
                            /\ \A other \in InstanceIds \ {id} : store'[other] = store[other]
                       ELSE /\ lastAppend'.error = "ConcurrencyConflict"
                            /\ store' = store
       /\ InSequence(store')
      ]_vars

\* both writers read instance i1 at the same head; one appended, the Append of the
\* other failed with ConcurrencyConflict, and the instance holds three events
C20_Witness ==
    /\ lastAppend.error = "ConcurrencyConflict"
    /\ Len(store["i1"]) = MaxStored
    /\ \E k \in DOMAIN store["i1"] : store["i1"][k].writer = "w1"
    /\ \E k \in DOMAIN store["i1"] : store["i1"][k].writer = "w2"
    /\ store["i2"] # <<>>

\* ------------------------------------------------------------------- C21
\* the workers running the engine for the instance id
ProcessedBy(id) ==
    {w \in Writers : working[w] = Work("processing", id)}

\* C21: whatever the number of times an instance is enqueued and whichever workers pull
\* it, at most one worker at a time runs the engine for one instance, and that worker
\* holds the instance's lock; a second worker that pulled the same instance is held
\* back until the lock is free.
C21_OneWorkerPerInstance ==
    \A id \in InstanceIds :
        /\ Cardinality(ProcessedBy(id)) <= 1
        /\ \A w \in ProcessedBy(id) : lockedBy[id] = w
        /\ ProcessedBy(id) = {} => lockedBy[id] = "none"

\* instance i1 was enqueued twice: worker w1 runs the engine for it while worker w2,
\* which pulled it as well, is held back; afterwards both instances can be processed in
\* parallel
C21_Witness ==
    /\ working["w1"] = Work("processing", "i1")
    /\ working["w2"] = Work("pulled", "i1")
    /\ Len(queue) = MaxQueued

\* ------------------------------------------------------------------- C22
\* C22: across stops and restarts of the service no started, uncancelled timer is lost
\* and none fires twice. While the service runs, every pending timer is armed and not
\* past its deadline; a timer fires only at or after its deadline, only while its row
\* is pending, and once; a timer that fires while the service has been running fires
\* exactly at its deadline; a restart fires exactly the pending timers whose deadline
\* has passed and arms exactly those whose deadline lies ahead; a cancelled timer
\* never fires.
C22_TimersSurviveRestart ==
    [][/\ \A id \in WaitIds :
             /\ firings'[id] \in {firings[id], firings[id] + 1}
             /\ firings'[id] <= 1
             /\ firings'[id] = firings[id] + 1 =>
                   /\ waitRows[id].status = "pending"
                   /\ waitRows'[id].status = "fired"
                   /\ waitRows[id].deadline <= clock
                   /\ serviceUp => waitRows[id].deadline = clock
             /\ waitRows[id].status = "cancelled" =>
                   waitRows'[id].status = "cancelled" /\ firings'[id] = firings[id]
             /\ (waitRows'[id].status = "fired") = (firings'[id] = 1)
       /\ (~serviceUp /\ serviceUp') =>
             \A id \in WaitIds :
                waitRows[id].status = "pending" =>
                   IF waitRows[id].deadline <= clock
                   THEN firings'[id] = firings[id] + 1
                   ELSE id \in armed' /\ waitRows'[id] = waitRows[id]
       /\ serviceUp' =>
             \A id \in WaitIds :
                waitRows'[id].status = "pending" =>
                   id \in armed' /\ clock' <= waitRows'[id].deadline
      ]_vars

\* the service was down when the deadline of t1 passed and the restart fired it at
\* once, while t2, whose deadline lies ahead, is armed again
C22_Witness ==
    /\ serviceUp
    /\ waitRows["t1"].status = "fired"
    /\ waitRows["t1"].deadline < clock
    /\ firings["t1"] = 1
    /\ waitRows["t2"].status = "pending"
    /\ waitRows["t2"].deadline > clock
    /\ "t2" \in armed

\* ------------------------------------------------------------------- C23
\* the positions of the cancellation events of the history
Cancellations == {i \in DOMAIN history : history[i].note = "cancelled"}

\* C23: cancelling a running instance appends the synthetic event and nothing else and
\* ends the run without a result; once the history holds the cancellation it is its
\* last event for good: no activity is scheduled, no timer started, no signal or timer
\* firing recorded, no retry counted, and the workflow object stays as it is.
C23_CancellationIsTerminal ==
    [][/\ (Cancellations = {} /\ Len(history') > Len(history)
              /\ history'[Len(history) + 1].note = "cancelled") =>
             /\ Len(history') = Len(history) + 1
             /\ wf'.pc = "done"
             /\ wf'.result = NoResult
       /\ Cancellations # {} =>
             /\ Cancellations = {Len(history)}
             /\ history[Len(history)].kind = "WorkflowFailed"
             /\ history' = history
             /\ wf'.pc = "done"
             /\ wf'.result = NoResult
             /\ wf'.signals = wf.signals
             /\ wf'.completed_tasks = wf.completed_tasks
             /\ attempt' = attempt
             /\ nSignals' = nSignals
      ]_vars

\* a leave run was cancelled while it waited for the HR decision with its timer
\* running, and a query is answered afterwards
C23_Witness ==
    /\ input.type = "LeaveApproval"
    /\ Cancellations # {}
    /\ Has("TimerStarted", "wait_hr")
    /\ ~Has("TimerFired", "wait_hr")
    /\ ~Has("SignalReceived", "hr_approval")
    /\ lastQuery # NoQuery

\* ---------------------------------------------------------- employee-svc
\* the state outside the employee service
notEmployeeVars == <<instanceVars, clientVars, storeVars, poolVars, timerVars, executorVars,
                     leaveVars, rateVars, attendanceVars>>

\* GET /v1/employees/{employee_id}
get_employee ==
    \E employee_id \in EmployeeIds, auth \in AuthContexts :
       /\ empCall' =
            Call("get", employee_id, "", auth,
                 IF ~has_any_role(auth, RequireEmployeeSelf) THEN 403
                 ELSE IF /\ ~has_role(auth, "employee.manager")
                         /\ ~has_role(auth, "hr.admin")
                         /\ employee_id # auth.user_id THEN 403
                 ELSE IF employee_id \notin EmployeeKeys(MOCK_EMPLOYEES) THEN 404
                 ELSE 200)
       /\ UNCHANGED MOCK_EMPLOYEES
       /\ UNCHANGED notEmployeeVars

\* POST /v1/employees
create_employee ==
    \E employee_id \in EmployeeIds, email \in Emails, auth \in AuthContexts :
       /\ IF ~has_any_role(auth, RequireEmployeeManager)
          THEN /\ empCall' = Call("create", employee_id, email, auth, 403)
               /\ UNCHANGED MOCK_EMPLOYEES
          ELSE IF employee_id \in EmployeeKeys(MOCK_EMPLOYEES)
          THEN /\ empCall' = Call("create", employee_id, email, auth, 409)
               /\ UNCHANGED MOCK_EMPLOYEES
          ELSE /\ empCall' = Call("create", employee_id, email, auth, 201)
               /\ MOCK_EMPLOYEES' =
                    [MOCK_EMPLOYEES EXCEPT ![employee_id] = Employee(email, "active", "None")]
       /\ UNCHANGED notEmployeeVars

\* PUT /v1/employees/{employee_id}
update_employee ==
    \E employee_id \in EmployeeIds, status \in UpdateStatuses, auth \in AuthContexts :
       /\ IF ~has_any_role(auth, RequireEmployeeManager)
          THEN /\ empCall' = Call("update", employee_id, "", auth, 403)
               /\ UNCHANGED MOCK_EMPLOYEES
          ELSE IF employee_id \notin EmployeeKeys(MOCK_EMPLOYEES)
          THEN /\ empCall' = Call("update", employee_id, "", auth, 404)
               /\ UNCHANGED MOCK_EMPLOYEES
          ELSE /\ empCall' = Call("update", employee_id, "", auth, 200)
               /\ MOCK_EMPLOYEES' =
                    IF status = "unset" THEN MOCK_EMPLOYEES
                    ELSE [MOCK_EMPLOYEES EXCEPT ![employee_id].status = status]
       /\ UNCHANGED notEmployeeVars

\* DELETE /v1/employees/{employee_id}
delete_employee ==
    \E employee_id \in EmployeeIds, auth \in AuthContexts :
       /\ IF ~has_any_role(auth, RequireEmployeeManager)
          THEN /\ empCall' = Call("delete", employee_id, "", auth, 403)
               /\ UNCHANGED MOCK_EMPLOYEES
          ELSE IF employee_id \notin EmployeeKeys(MOCK_EMPLOYEES)
          THEN /\ empCall' = Call("delete", employee_id, "", auth, 404)
               /\ UNCHANGED MOCK_EMPLOYEES
          ELSE /\ empCall' = Call("delete", employee_id, "", auth, 200)
               /\ MOCK_EMPLOYEES' = Deleted(MOCK_EMPLOYEES, employee_id)
       /\ UNCHANGED notEmployeeVars

EmployeeNext == get_employee \/ create_employee \/ update_employee \/ delete_employee

EmployeeSpec == Init /\ [][EmployeeNext]_vars

\* ------------------------------------------------------------------- C24
\* the step handles a create call
Creating == empCall'.op = "create" /\ empCall' # empCall

\* the created employee duplicates a stored one: by its employee_id or by its e-mail
DuplicatesById == empCall'.employee_id \in EmployeeKeys(MOCK_EMPLOYEES)

DuplicatesByEmail ==
    \E id \in EmployeeKeys(MOCK_EMPLOYEES) : MOCK_EMPLOYEES[id].email = empCall'.email

\* C24: a create call of a caller allowed to create, for an employee that duplicates a
\* stored one (same employee_id, or same e-mail), is answered 409 and leaves the store
\* as it was.
C24_DuplicateRejected ==
    [][(/\ Creating
        /\ has_any_role(empCall'.auth, RequireEmployeeManager)
        /\ (DuplicatesById \/ DuplicatesByEmail)) =>
          /\ empCall'.status_code = 409
          /\ MOCK_EMPLOYEES' = MOCK_EMPLOYEES
      ]_vars

\* the half of it that the handler keeps: the employee_id is a key of the store
C24_DuplicateIdRejected ==
    [][(/\ Creating
        /\ has_any_role(empCall'.auth, RequireEmployeeManager)
        /\ DuplicatesById) =>
          /\ empCall'.status_code = 409
          /\ MOCK_EMPLOYEES' = MOCK_EMPLOYEES
      ]_vars

\* two stored employees with one e-mail address
C24_SharedEmail ==
    \E a, b \in EmployeeKeys(MOCK_EMPLOYEES) :
       a # b /\ MOCK_EMPLOYEES[a].email = MOCK_EMPLOYEES[b].email

\* ------------------------------------------------------------------- C25
\* the step handles a get, update or delete call for an id that is not in the store
MissingCall ==
    /\ empCall' # empCall
    /\ empCall'.op \in {"get", "update", "delete"}
    /\ empCall'.employee_id \notin EmployeeKeys(MOCK_EMPLOYEES)

\* the caller may use the endpoint for that id: update and delete take one of the
\* managing roles, get takes employee.manager or hr.admin, or the caller's own id
MayCall(c) ==
    IF c.op = "get"
    THEN /\ c.auth.roles \cap {"employee.self", "employee.manager", "employee.admin",
                               "hr.admin"} # {}
         /\ \/ c.auth.roles \cap {"employee.manager", "hr.admin"} # {}
            \/ c.employee_id = c.auth.user_id
    ELSE c.auth.roles \cap {"employee.manager", "employee.admin", "hr.admin"} # {}

\* the step is a successful delete
SoftDelete == empCall' # empCall /\ empCall'.op = "delete" /\ empCall'.status_code = 200

RecordSite(status) == IF status = "approved" THEN "approve_update" ELSE "reject_update"

FinalNoticeSite(status) == IF status = "approved" THEN "approve_notify" ELSE "reject_notify"

\* the completions of the recording activity that stored the status: the leave service
\* answered the update with success
Recorded(status) ==
    {i \in EventAt("ActivityCompleted", RecordSite(status)) : history[i].ok}

\* C26: when a LeaveApproval run has returned approved or rejected, the decision was
\* recorded exactly once with that status (the update of the leave request succeeded
\* once), it was recorded before the final notification to the employee was
\* scheduled, and no decision with the other status was recorded.
C26_DecisionRecordedOnce ==
    input.type = "LeaveApproval" =>
       \A status \in {"approved", "rejected"} :
          wf.result.status = status =>
             /\ Cardinality(Recorded(status)) = 1
             /\ \A i \in Recorded(status) :
                   \A j \in EventAt("ActivityScheduled", FinalNoticeSite(status)) : i < j
             /\ \A other \in {"approved", "rejected"} \ {status} : Recorded(other) = {}

\* what holds of the calls: no history holds both the recording of an approval and
\* the recording of a rejection; when the run has returned approved or rejected, the
\* update_leave_request_status activity with that status was scheduled exactly once
\* and completed exactly once, the one for the other status never, and the final
\* notification to the employee was scheduled once, after that activity completed
C26_UpdateCalledOnce ==
    input.type = "LeaveApproval" =>
       /\ ~(Has("ActivityScheduled", "approve_update")
              /\ Has("ActivityScheduled", "reject_update"))
       /\ \A status \in {"approved", "rejected"} :
             wf.result.status = status =>
                /\ Cardinality(EventAt("ActivityScheduled", RecordSite(status))) = 1
                /\ Cardinality(EventAt("ActivityCompleted", RecordSite(status))) = 1
                /\ Cardinality(EventAt("ActivityScheduled", FinalNoticeSite(status))) = 1
                /\ \A i \in EventAt("ActivityCompleted", RecordSite(status)) :
                      \A j \in EventAt("ActivityScheduled", FinalNoticeSite(status)) : i < j
                /\ \A other \in {"approved", "rejected"} \ {status} :
                      /\ ~Has("ActivityScheduled", RecordSite(other))
                      /\ ~Has("ActivityScheduled", FinalNoticeSite(other))

\* HR did not answer in time: the timeout notice went out, the update was called and
\* the run returned rejected by hr
C26_TimeoutRejected ==
    /\ input.type = "LeaveApproval"
    /\ wf.result.status = "rejected"
    /\ wf.result.by = "hr"
    /\ Has("TimerFired", "wait_hr")
    /\ Has("ActivityCompleted", "notify_timeout_hr")
    /\ Has("ActivityCompleted", "reject_update")
    /\ Has("ActivityCompleted", "reject_notify")

\* ----------------------------------------------------- Activity Executor
\* the state outside the Activity Executor's retry loop
notExecutorVars == <<instanceVars, clientVars, storeVars, poolVars, timerVars, httpVars>>

\* Execute(name, args, retryPolicy): the first attempt of an activity call starts
Execute ==
    /\ retryPolicy = NoPolicy
    /\ retryPolicy' \in RetryPolicies
    /\ retryNo' = 0
    /\ slept' = 0
    /\ UNCHANGED notExecutorVars

\* the attempt failed with a transient error and attempts are left: the executor
\* sleeps, counts the attempt and tries again
SleepAndRetry ==
    /\ retryPolicy # NoPolicy
    /\ retryNo + 1 < retryPolicy.maxAttempts
    /\ slept' = RetryDelay(retryPolicy, retryNo)
    /\ retryNo' = retryNo + 1
    /\ UNCHANGED retryPolicy
    /\ UNCHANGED notExecutorVars

\* the attempt succeeded, or it failed and no attempt is left: the call is over
Surface ==
    /\ retryPolicy # NoPolicy
    /\ retryPolicy' = NoPolicy
    /\ retryNo' = 0
    /\ slept' = 0
    /\ UNCHANGED notExecutorVars

ExecutorNext == Execute \/ SleepAndRetry \/ Surface

ExecutorSpec == Init /\ [][ExecutorNext]_vars

\* ------------------------------------------------------------------- C27
\* the step sleeps before a retry
Sleeping == retryNo' = retryNo + 1

\* C27: the delay slept before a retry, with attempt retries of the call made so far,
\* is the smaller of initialInterval * backoffCoefficient^attempt and maxInterval; it
\* is never shorter than the delay before, never longer than maxInterval (10 s under
\* the leave approval policy, 30 s under the onboarding policy), and it is
\* initialInterval before the first retry.
C27_RetryDelay ==
    [][Sleeping =>
         LET grown == retryPolicy.initialInterval * retryPolicy.backoffCoefficient ^ retryNo
         IN  /\ slept' = IF grown <= retryPolicy.maxInterval THEN grown
                         ELSE retryPolicy.maxInterval
             /\ slept' >= slept
             /\ slept' <= retryPolicy.maxInterval
             /\ retryPolicy = LeavePolicy => slept' <= 10
             /\ retryPolicy = OnboardingPolicy => slept' <= 30
             /\ retryNo = 0 => slept' = retryPolicy.initialInterval
      ]_vars

\* the delay of a call has grown from 3 s to 9 s and is now held at the cap of 10 s
C27_Witness ==
    /\ retryPolicy.initialInterval = 3
    /\ retryPolicy.backoffCoefficient = 3
    /\ retryPolicy.maxInterval = maximum_interval_leave
    /\ retryNo = 3
    /\ slept = maximum_interval_leave

\* ------------------------------------------------------------- leave-svc
\* the state outside the leave service
notLeaveVars ==
    <<instanceVars, clientVars, storeVars, poolVars, timerVars, executorVars, employeeVars,
      rateVars, attendanceVars>>

\* a call of approve_leave_request or reject_leave_request arrives
Arrive ==
    \E c \in LeaveCalls, op \in {"approve", "reject"}, request_id \in CalledRequestIds :
       /\ handlers[c].pc \in {"idle", "responded"}
       /\ handlers' = [handlers EXCEPT ![c] =
                         Handler(op, request_id, "select", NoHandler.loaded, 0)]
       /\ UNCHANGED <<leave_request, delayed>>
       /\ UNCHANGED notLeaveVars

\* the handler selects the row and tests it: 404 without a row, 400 unless the loaded
\* status is pending; otherwise it assigns its decision to the loaded row
SelectAndTest ==
    \E c \in LeaveCalls :
       /\ handlers[c].pc = "select"
       /\ handlers' = [handlers EXCEPT ![c] =
             IF handlers[c].request_id \notin StoredRequestIds
             THEN [handlers[c] EXCEPT !.pc = "responded", !.status_code = 404]
             ELSE IF leave_request.status # "pending"
             THEN [handlers[c] EXCEPT !.pc = "responded", !.status_code = 400,
                                      !.loaded = leave_request]
             ELSE [handlers[c] EXCEPT !.pc = "commit",
                      !.loaded = Decide(handlers[c].op, leave_request, UserId(c))]]
       /\ UNCHANGED <<leave_request, delayed>>
       /\ UNCHANGED notLeaveVars

\* await session.commit()
Commit ==
    \E c \in LeaveCalls :
       /\ handlers[c].pc = "commit"
       /\ leave_request' = Committed(handlers[c].op, leave_request, handlers[c].loaded)
       /\ handlers' = [handlers EXCEPT ![c].pc = "refresh"]
       /\ UNCHANGED delayed
       /\ UNCHANGED notLeaveVars

\* await session.refresh(leave_request), the .delay calls and the response
RefreshAndDispatch ==
    \E c \in LeaveCalls :
       /\ handlers[c].pc = "refresh"
       /\ handlers' = [handlers EXCEPT ![c] =
             [handlers[c] EXCEPT !.pc = "responded", !.status_code = 200,
                                 !.loaded = leave_request]]
       /\ delayed' = delayed \o Dispatched(handlers[c].op, c)
       /\ UNCHANGED leave_request
       /\ UNCHANGED notLeaveVars

LeaveNext == Arrive \/ SelectAndTest \/ Commit \/ RefreshAndDispatch

LeaveSpec == Init /\ [][LeaveNext]_vars

\* ------------------------------------------------------------------- C28
\* the notifications dispatched for a decision
Notifications == {i \in DOMAIN delayed : delayed[i].task = "notify_leave_request"}

\* C28: the request is decided at most once: once its status is not pending it never
\* changes, at most one decision is ever committed and notified, and the tasks are
\* dispatched for that call only.
C28_DecidedAtMostOnce ==
    [][/\ leave_request.status # "pending" => leave_request'.status = leave_request.status
       /\ Cardinality({i \in DOMAIN delayed' :
                          delayed'[i].task = "notify_leave_request"}) <= 1
       /\ \A i, j \in DOMAIN delayed' : delayed'[i].call = delayed'[j].call
      ]_vars

\* an approve and a reject of the same pending request both came back with 200
C28_BothSucceeded ==
    /\ handlers["c1"].op = "approve"
    /\ handlers["c2"].op = "reject"
    /\ \A c \in LeaveCalls : handlers[c].pc = "responded" /\ handlers[c].status_code = 200
    /\ Cardinality(Notifications) = 2

\* with the calls one after the other, the second is answered 400
C28_SecondRejected ==
    /\ handlers["c1"].status_code = 200
    /\ handlers["c2"].status_code = 400
    /\ Len(delayed) = 1

\* --------------------------------------------------- RateLimitMiddleware
\* the state outside the rate limiter
notRateVars ==
    <<instanceVars, clientVars, storeVars, poolVars, timerVars, executorVars, employeeVars,
      leaveVars, attendanceVars>>

\* dispatch: a limited request is answered 429, any other is passed on to the
\* application
dispatch ==
    \E client_key \in ClientKeys :
       LET r == is_rate_limited(clients, client_key, wallTime)
       IN  /\ clients' = r.clients
           /\ answered' = Answer(client_key, IF r.limited THEN 429 ELSE 200, wallTime)
           /\ passed' = IF r.limited THEN passed
                        ELSE [passed EXCEPT ![client_key] = Append(@, wallTime)]
           /\ UNCHANGED wallTime
           /\ UNCHANGED notRateVars

\* a second passes
TimePasses ==
    /\ wallTime < MaxTime
    /\ wallTime' = wallTime + 1
    /\ UNCHANGED <<clients, answered, passed>>
    /\ UNCHANGED notRateVars

RateNext == dispatch \/ TimePasses

RateSpec == Init /\ [][RateNext]_vars

\* ------------------------------------------------------------------- C29
\* the requests of the client let through in the period that began at time t
PassedSince(ps, k, t) == {i \in DOMAIN ps[k] : ps[k][i] >= t /\ ps[k][i] <= t + period}

\* the step answers a request of client k with 429, or lets it through
Rejects(k) == answered' # answered /\ answered' = Answer(k, 429, wallTime)

Passes(k) == passed'[k] # passed[k]

\* C29: a client's counter is between 1 and calls, and at most calls of its requests
\* were let through in the period that its window started (the window is started by
\* the client's first request, and again by its first request after a window has
\* elapsed); a request answered 429 changes neither counter nor window; a request
\* that arrives after the window has elapsed is let through and starts a window at
\* that time with the counter at 1; a request within the window is let through, and
\* counted, exactly when the counter is below calls.
C29_AtMostCallsPerWindow ==
    [][\A k \in ClientKeys :
         /\ clients'[k] # NoClient =>
               /\ clients'[k].calls >= 1
               /\ clients'[k].calls <= calls
               /\ Cardinality(PassedSince(passed', k, clients'[k].window_start)) <= calls
               /\ Cardinality(PassedSince(passed', k, clients'[k].window_start))
                     = clients'[k].calls
         /\ Rejects(k) => (clients' = clients /\ passed' = passed)
         /\ (Passes(k) \/ Rejects(k)) =>
               IF clients[k] = NoClient \/ wallTime - clients[k].window_start > period
               THEN Passes(k) /\ clients'[k] = [calls |-> 1, window_start |-> wallTime]
               ELSE IF clients[k].calls < calls
               THEN /\ Passes(k)
                    /\ clients'[k] = [calls |-> clients[k].calls + 1,
                                      window_start |-> clients[k].window_start]
               ELSE Rejects(k)
      ]_vars

\* a client used up its window, was answered 429, and after the window had elapsed
\* its next request was let through and began a window with the counter at 1
C29_Witness ==
    \E k \in ClientKeys :
       /\ Len(passed[k]) = calls + 1
       /\ passed[k][calls + 1] > passed[k][1] + period
       /\ clients[k] = [calls |-> 1, window_start |-> wallTime]
       /\ answered = Answer(k, 200, wallTime)

\* -------------------------------------------------------- attendance-svc
\* the state outside the attendance service
notAttendanceVars ==
    <<instanceVars, clientVars, storeVars, poolVars, timerVars, executorVars, employeeVars,
      leaveVars, rateVars>>

\* a call of check_in or check_out arrives
ArriveCheck ==
    \E c \in AttendanceCalls, op \in {"check_in", "check_out"}, e \in Attendants :
       /\ checkCalls[c].pc \in {"idle", "responded"}
       /\ checkCalls' = [checkCalls EXCEPT ![c] = Check(op, e, "select", 0, -1, 0)]
       /\ UNCHANGED <<shifts, processing>>
       /\ UNCHANGED notAttendanceVars

\* the handler selects the employee's active shift of today: scalar_one_or_none raises
\* with more than one row (500); check_in answers 409 with a row and goes on to
\* insert without; check_out answers 404 without a row and computes total_hours of
\* the loaded row with one
SelectShift ==
    \E c \in AttendanceCalls, elapsed \in ElapsedHours, break \in BreakHours :
       LET h == checkCalls[c]
           found == ActiveShifts(shifts, h.employee_id)
       IN  /\ h.pc = "select"
           /\ checkCalls' = [checkCalls EXCEPT ![c] =
                 IF Cardinality(found) > 1
                 THEN [h EXCEPT !.pc = "responded", !.status_code = 500]
                 ELSE IF h.op = "check_in"
                 THEN IF found # {}
                      THEN [h EXCEPT !.pc = "responded", !.status_code = 409]
                      ELSE [h EXCEPT !.pc = "commit"]
                 ELSE IF found = {}
                      THEN [h EXCEPT !.pc = "responded", !.status_code = 404]
                      ELSE [h EXCEPT !.pc = "commit",
                                     !.loaded = CHOOSE i \in found : TRUE,
                                     !.total_hours = NonNegative(elapsed - break)]]
           /\ UNCHANGED <<shifts, processing>>
           /\ UNCHANGED notAttendanceVars

\* await session.commit(): check_in inserts its new active shift, check_out updates
\* the loaded row; then the refresh, the .delay call and the response
CommitShift ==
    \E c \in AttendanceCalls :
       LET h == checkCalls[c]
       IN  /\ h.pc = "commit"
           /\ h.op = "check_in" => Len(shifts) < MaxShifts
           /\ shifts' =
                IF h.op = "check_in"
                THEN Append(shifts, Shift(h.employee_id, "active", -1))
                ELSE [shifts EXCEPT ![h.loaded] =
                        Shift(h.employee_id, "completed", h.total_hours)]
           /\ checkCalls' = [checkCalls EXCEPT ![c] =
                 [h EXCEPT !.pc = "responded", !.status_code = 200,
                           !.loaded = IF h.op = "check_in" THEN Len(shifts) + 1
                                      ELSE h.loaded]]
           /\ processing' = processing + 1
           /\ UNCHANGED notAttendanceVars

AttendanceNext == ArriveCheck \/ SelectShift \/ CommitShift

AttendanceSpec == Init /\ [][AttendanceNext]_vars

\* ------------------------------------------------------------------- C30
\* the shifts of employee e, all of the one day
ShiftsOf(rows, e) == {i \in DOMAIN rows : rows[i].employee_id = e}

\* the step answers the call c
Responds(c) == checkCalls[c].pc # "responded" /\ checkCalls'[c].pc = "responded"

\* C30: no employee ever has more than one active shift on the day; a check-in of an
\* employee who already has a shift for the day is answered 409 and leaves the shifts
\* as they are; a successful check-out changes exactly one shift, the caller's active
\* one, to completed with total_hours of 0 or more.
C30_OneCheckInPerDay ==
    [][/\ \A e \in Attendants : Cardinality(ActiveShifts(shifts', e)) <= 1
       /\ \A c \in AttendanceCalls :
             (Responds(c) /\ checkCalls[c].op = "check_in"
                /\ ShiftsOf(shifts, checkCalls[c].employee_id) # {}) =>
                   (checkCalls'[c].status_code = 409 /\ shifts' = shifts)
       /\ \A c \in AttendanceCalls :
             (Responds(c) /\ checkCalls[c].op = "check_out"
                /\ checkCalls'[c].status_code = 200) =>
                   \E i \in ActiveShifts(shifts, checkCalls[c].employee_id) :
                      /\ shifts'[i].status = "completed"
                      /\ shifts'[i].total_hours >= 0
                      /\ \A j \in DOMAIN shifts : j # i => shifts'[j] = shifts[j]
      ]_vars

\* two check-ins of employee 7 at the same time both came back with 200 and left two
\* active shifts
C30_TwoActiveShifts ==
    /\ Cardinality(ActiveShifts(shifts, 7)) = 2
    /\ \A c \in AttendanceCalls :
          /\ checkCalls[c].op = "check_in"
          /\ checkCalls[c].pc = "responded"
          /\ checkCalls[c].status_code = 200

\* one call at a time: the employee checked in, out, and in again on the same day
C30_CheckedInAgain ==
    /\ Len(shifts) = 2
    /\ shifts[1] = Shift(7, "completed", 8)
    /\ shifts[2] = Shift(7, "active", -1)
    /\ checkCalls["a2"] = NoCheck

====
